---------------------------- MODULE Spec2Model ----------------------------
(***************************************************************************)
(* Difficulty (star rating) and performance calculation of rosu-pp-older.  *)
(*                                                                         *)
(* Floating point values are fixed-point integers: strains, decay factors  *)
(* and ratings carry FP (three decimal digits), deltas carry DS            *)
(* (hundredths of a millisecond), clock rates are hundredths.  Exp and Ln  *)
(* are computed by range reduction and series.  Each calculation has a     *)
(* specification of its own over the variable that holds its state.        *)
(***************************************************************************)
EXTENDS Integers, Sequences, FiniteSets, TLC

VARIABLES
    tk,     \* taiko_ppv1::stars: the call's position, its locals and the Strain skill
    dl,     \* DifficultyObject::new of osu_2015, osu_2018 and taiko_ppv1
    rd,     \* a skill's peak list and its weighted reduction
    ev,     \* taiko_2022 DifficultyValues::eval
    os,     \* osu_2018 / osu_2021_january / osu_2021_july stars
    ck,     \* the difficulty builders' clock rate
    pp,     \* performance calculators' ratios
    cb,     \* fruits_2022 ObjectCountBuilder
    ob,     \* the difficulty objects built from a chart
    hr,     \* the hit results generated by a performance calculator
    fr,     \* fruits_ppv1::stars: the objects emitted from the chart and fed to Movement
    cp,     \* the control point in force at a time
    bf,     \* fruits_ppv1::stars: the buffers shared by the sliders of a chart
    vc,     \* a StrainsVec, what was pushed to it and an iterator over it
    co,     \* a taiko_ppv1 Strain skill and the objects it processed
    mc,     \* the column of a mania object and the columns of the skill
    mu      \* ManiaPP::compute_strain of mania_ppv1 and mania_2018 on two scores

vars == <<tk, dl, rd, ev, os, ck, pp, cb, ob, hr, fr, cp, bf, vc, co, mc, mu>>

\* Option: None, or Some(x) with x = unwrap
None == <<>>
Some(x) == <<x>>
unwrap(o) == o[1]

(***************************************************************************)
(* Fixed-point arithmetic                                                  *)
(***************************************************************************)
FP == 10 * 10 * 10
DS == 10 * 10

Max(a, b) == IF a >= b THEN a ELSE b
Min(a, b) == IF a <= b THEN a ELSE b
Abs(a) == IF a < 0 THEN -a ELSE a

\* a * b and a / b of two FP values
MulFP(a, b) == (a * b) \div FP
DivFP(a, b) == (a * FP) \div b

CeilDiv(a, b) == (a + b - 1) \div b

\* ln 2 = 0.693147
LN2 == (693147 * FP) \div (FP * FP)

RECURSIVE Pow2(_)
Pow2(k) == IF k = 0 THEN 1 ELSE 2 * Pow2(k - 1)

\* e^r for 0 <= r < ln 2, by its Taylor series
ExpSmall(r) ==
    LET r2 == MulFP(r, r)
        r3 == MulFP(r2, r)
        r4 == MulFP(r3, r)
        r5 == MulFP(r4, r)
    IN  FP + r + r2 \div 2 + r3 \div 6 + r4 \div 24 + r5 \div 120

ExpPos(y) ==
    LET k == y \div LN2
        r == y - k * LN2
    IN  ExpSmall(r) * Pow2(k)

\* e^y of an FP value of either sign
ExpFP(y) == IF y >= 0 THEN ExpPos(y) ELSE (FP * FP) \div ExpPos(-y)

\* ln m for 1 <= m < 2: 2 atanh((m - 1) / (m + 1))
LnSmall(m) ==
    LET z == ((m - FP) * FP) \div (m + FP)
        z2 == MulFP(z, z)
        z3 == MulFP(z2, z)
        z5 == MulFP(z3, z2)
        z7 == MulFP(z5, z2)
    IN  2 * (z + z3 \div 3 + z5 \div 5 + z7 \div 7)

RECURSIVE LnFP(_)
\* ln x of an FP value x >= 1
LnFP(x) == IF x >= 2 * FP THEN LN2 + LnFP(x \div 2) ELSE LnSmall(x)

RECURSIVE SqrtBetween(_, _, _)
\* the r with lo <= r < hi and r * r <= n < (r + 1) * (r + 1)
SqrtBetween(n, lo, hi) ==
    IF hi - lo <= 1 THEN lo
    ELSE LET mid == (lo + hi) \div 2
         IN  IF mid * mid <= n THEN SqrtBetween(n, mid, hi) ELSE SqrtBetween(n, lo, mid)

\* the integer square root
ISqrt(n) == SqrtBetween(n, 0, 46341)

(***************************************************************************)
(* Beatmaps and mods                                                       *)
(***************************************************************************)
\* the most hit objects of a modelled beatmap
MaxObjects == 3

\* start time of a beatmap's first object, and the gaps between its objects
FirstTimes == {0, 200}
Gaps == {0, 200, 1400, 2100}

\* a taiko hit object with its hit sound: a centre or rim circle, or a spinner
TaikoKinds ==
    { [kind |-> "circle", rim |-> FALSE],
      [kind |-> "circle", rim |-> TRUE],
      [kind |-> "spinner", rim |-> FALSE] }

HitObject(t, k) == [start_time |-> t, kind |-> k.kind, rim |-> k.rim]

RECURSIVE ChartsOfLen(_, _)
\* Beatmap::hit_objects (with Beatmap::sounds), sorted by start time
ChartsOfLen(n, kinds) ==
    IF n = 0 THEN {<<>>}
    ELSE IF n = 1 THEN { <<HitObject(t, k)>> : t \in FirstTimes, k \in kinds }
    ELSE { Append(c, HitObject(c[n - 1].start_time + g, k)) :
             c \in ChartsOfLen(n - 1, kinds), g \in Gaps, k \in kinds }

Charts(kinds) == UNION { ChartsOfLen(n, kinds) : n \in 0..MaxObjects }

is_circle(h) == h.kind = "circle"

\* Beatmap::n_circles
n_circles(map) == Cardinality({ i \in 1..Len(map) : is_circle(map[i]) })

NoMod == [dt |-> FALSE, ht |-> FALSE]
DoubleTime == [dt |-> TRUE, ht |-> FALSE]
HalfTime == [dt |-> FALSE, ht |-> TRUE]

\* Mods::clock_rate, in hundredths
Mods_clock_rate(mods) == IF mods.dt THEN 150 ELSE IF mods.ht THEN 75 ELSE 100

(***************************************************************************)
(* taiko_ppv1: DifficultyObject and the Strain skill                       *)
(***************************************************************************)
Taiko_SECTION_LEN == 400
\* 0.04125, in 1/100000
Taiko_STAR_SCALING_FACTOR == 4125
\* 0.3, in FP
Taiko_STRAIN_DECAY_BASE == 300
\* 0.9, in hundredths
Taiko_DECAY_WEIGHT == 90
Taiko_SKILL_MULTIPLIER == 1
\* 0.2, in FP
RHYTHM_CHANGE_BASE_THRESHOLD == 200
RHYTHM_CHANGE_BASE == 2

\* the scale of the weights of the weighted reduction
WS == 10 * FP

\* delta in DS; clock_rate in hundredths
Taiko_DifficultyObject_new(base, prev, clock_rate) ==
    [ base |-> base,
      prev |-> prev,
      delta |-> ((base.start_time - prev.start_time) * 100 * DS) \div clock_rate,
      has_type_change |-> prev.rim # base.rim ]

\* a skill that keeps the peak list of the call before
Taiko_Strain_stale ==
    [ current_strain |-> FP,
      current_section_peak |-> FP,
      same_color_count |-> 1,
      last_color_switch |-> "None",
      strain_peaks |-> IF tk.strain = None THEN <<>> ELSE tk.strain.strain_peaks,
      prev_delta |-> None ]

Taiko_Strain_new ==
    [ current_strain |-> FP,
      current_section_peak |-> FP,
      same_color_count |-> 1,
      last_color_switch |-> "None",
      strain_peaks |-> <<>>,
      prev_delta |-> None ]

Taiko_save_current_peak(s) ==
    [s EXCEPT !.strain_peaks = Append(s.strain_peaks, s.current_section_peak)]

\* STRAIN_DECAY_BASE.powf(ms / 1000.0), ms in DS
Taiko_strain_decay(ms) ==
    ExpFP((ms * (0 - LnFP(DivFP(FP, Taiko_STRAIN_DECAY_BASE)))) \div (DS * 1000))

Taiko_peak_strain(s, delta_time) ==
    MulFP(s.current_strain, Taiko_strain_decay(delta_time))

\* a new section that starts from the peak of the section before
Taiko_start_new_section_keep(s, time) == s

\* time in DS; prev_delta is Some after the first process
Taiko_start_new_section_from(s, time) ==
    [s EXCEPT !.current_section_peak = Taiko_peak_strain(s, time - unwrap(s.prev_delta))]

Taiko_has_rhythm_change(s, current) ==
    IF current.delta = 0 \/ s.prev_delta = None \/ s.prev_delta = Some(0)
    THEN FALSE
    ELSE LET prev_time == unwrap(s.prev_delta)
             time_elapsed_ratio ==
                 Max((prev_time * FP) \div current.delta,
                     (current.delta * FP) \div prev_time)
             difference ==
                 ((LnFP(time_elapsed_ratio) * FP) \div LnFP(RHYTHM_CHANGE_BASE * FP)) % FP
         IN  IF time_elapsed_ratio >= 8 * FP THEN FALSE
             ELSE /\ difference > RHYTHM_CHANGE_BASE_THRESHOLD
                  /\ difference < FP - RHYTHM_CHANGE_BASE_THRESHOLD

\* has_color_change: the returned flag, and the skill after the call

\* has_color_change granting the bonus at every switch after the first
Taiko_has_color_change_any_parity(s, current) ==
    IF ~current.has_type_change
    THEN [flag |-> FALSE,
          skill |-> [s EXCEPT !.same_color_count = s.same_color_count + 1]]
    ELSE [flag |-> s.last_color_switch # "None",
          skill |-> [s EXCEPT !.last_color_switch =
                                  IF s.same_color_count % 2 = 0 THEN "Even" ELSE "Odd",
                              !.same_color_count = 1]]

Taiko_has_color_change(s, current) ==
    IF ~current.has_type_change
    THEN [flag |-> FALSE,
          skill |-> [s EXCEPT !.same_color_count = s.same_color_count + 1]]
    ELSE LET old_color_switch == s.last_color_switch
             new_color_switch == IF s.same_color_count % 2 = 0 THEN "Even" ELSE "Odd"
         IN  [flag |-> old_color_switch # "None" /\ old_color_switch # new_color_switch,
              skill |-> [s EXCEPT !.last_color_switch = new_color_switch,
                                  !.same_color_count = 1]]

\* strain_value_of: the returned value (FP), and the skill after the call
Taiko_strain_value_of(s, current) ==
    LET pattern == is_circle(current.base) /\ is_circle(current.prev)
                       /\ current.delta < 1000 * DS
        color == Taiko_has_color_change(s, current)
        addition ==
            IF pattern
            THEN FP + (IF color.flag THEN 750 ELSE 0)
                    + (IF Taiko_has_rhythm_change(color.skill, current) THEN FP ELSE 0)
            ELSE FP
        addition_factor ==
            IF current.delta < 50 * DS
            THEN 400 + (600 * current.delta) \div (50 * DS)
            ELSE FP
    IN  [ value |-> MulFP(addition_factor, addition),
          skill |-> IF pattern THEN color.skill
                    ELSE [s EXCEPT !.last_color_switch = "None",
                                   !.same_color_count = 1] ]

Taiko_process(s, current) ==
    LET decayed == MulFP(s.current_strain, Taiko_strain_decay(current.delta))
        sv == Taiko_strain_value_of(s, current)
        strain == decayed + sv.value * Taiko_SKILL_MULTIPLIER
    IN  [sv.skill EXCEPT !.current_strain = strain,
                         !.current_section_peak = Max(strain, s.current_section_peak),
                         !.prev_delta = Some(current.delta)]

RECURSIVE Insert(_, _)
\* p put into a descending list
Insert(sorted, p) ==
    IF sorted = <<>> THEN <<p>>
    ELSE IF p >= Head(sorted) THEN <<p>> \o sorted
    ELSE <<Head(sorted)>> \o Insert(Tail(sorted), p)

RECURSIVE SortDesc(_)
\* sort_unstable_by(|a, b| b.partial_cmp(a))
SortDesc(peaks) ==
    IF peaks = <<>> THEN <<>> ELSE Insert(SortDesc(Tail(peaks)), Head(peaks))

RECURSIVE WeightedSum(_, _, _)
\* difficulty += strain * weight; weight *= decay_weight (weight in WS)
WeightedSum(sorted, weight, decay_weight) ==
    IF sorted = <<>> THEN 0
    ELSE Head(sorted) * weight
           + WeightedSum(Tail(sorted), (weight * decay_weight) \div 100, decay_weight)

\* the weighted sum of the peaks in the order of their recording
Taiko_difficulty_value_unsorted(s) ==
    [ value |-> WeightedSum(s.strain_peaks, WS, Taiko_DECAY_WEIGHT),
      skill |-> s ]

\* difficulty_value: the returned value (in FP * WS), and the skill with its
\* peak list sorted in place
Taiko_difficulty_value(s) ==
    LET sorted == SortDesc(s.strain_peaks)
    IN  [ value |-> WeightedSum(sorted, WS, Taiko_DECAY_WEIGHT),
          skill |-> [s EXCEPT !.strain_peaks = sorted] ]

(***************************************************************************)
(* taiko_ppv1::stars, one call after another on the same beatmap           *)
(***************************************************************************)
\* the most calls of stars on one beatmap
MaxRuns == 2

ModSet == {NoMod, DoubleTime, HalfTime}

\* the passed_objects argument
PassedSet == {None} \cup { Some(n) : n \in 0..(MaxObjects + 1) }

\* before the call: nothing of a former call is left but its returned attributes
TaikoCall(map, mods, passed_objects) ==
    [ pc |-> "call",
      map |-> map,
      mods |-> mods,
      passed_objects |-> passed_objects,
      n |-> 0,
      idx |-> 0,
      section_len |-> 0,
      current_section_end |-> 0,
      strain |-> None,
      carried |-> <<>>,
      untouched |-> FALSE,
      attrs |-> None,
      difficulty |-> None,
      again |-> None,
      runs |-> 1,
      last_attrs |-> None ]

\* the difficulty object of the idx-th hit object
TaikoCurrent == Taiko_DifficultyObject_new(tk.map[tk.idx], tk.map[tk.idx - 1],
                                           Mods_clock_rate(tk.mods))

\* stars up to the first difficulty object: the early return, the first
\* section's end, the skill
TaikoBegin ==
    /\ tk.pc = "call"
    /\ LET take == IF tk.passed_objects = None THEN Len(tk.map)
                   ELSE unwrap(tk.passed_objects)
           max_combo == n_circles(tk.map)
           clock_rate == Mods_clock_rate(tk.mods)
           section_len == (Taiko_SECTION_LEN * clock_rate) \div 100
       IN  IF take < 2
           THEN tk' = [tk EXCEPT !.pc = "done",
                                 !.attrs = Some([stars |-> 0, max_combo |-> max_combo])]
           ELSE IF Len(tk.map) = 0 \/ Min(take, Len(tk.map)) < 2
           THEN tk' = [tk EXCEPT !.pc = "panic"]
           ELSE tk' = [tk EXCEPT
                         !.pc = "first",
                         !.n = Min(take, Len(tk.map)),
                         !.idx = 2,
                         !.section_len = section_len,
                         !.current_section_end =
                             CeilDiv(tk.map[1].start_time, section_len) * section_len,
                         !.strain = Taiko_Strain_new,
                         !.carried = <<>>,
                         !.untouched = FALSE,
                         !.attrs = None,
                         !.difficulty = None,
                         !.again = None]
    /\ UNCHANGED <<dl, rd, ev, os, ck, pp, cb, ob, hr, fr, cp, bf, vc, co, mc, mu>>

\* one turn of the loop before the second object is processed
TaikoSkipSection ==
    /\ tk.pc = "first"
    /\ tk.map[tk.idx].start_time > tk.current_section_end
    /\ tk' = [tk EXCEPT !.current_section_end = @ + tk.section_len]
    /\ UNCHANGED <<dl, rd, ev, os, ck, pp, cb, ob, hr, fr, cp, bf, vc, co, mc, mu>>

TaikoProcessFirst ==
    /\ tk.pc = "first"
    /\ ~(tk.map[tk.idx].start_time > tk.current_section_end)
    /\ tk' = [tk EXCEPT !.strain = Taiko_process(@, TaikoCurrent),
                        !.idx = @ + 1,
                        !.pc = "loop"]
    /\ UNCHANGED <<dl, rd, ev, os, ck, pp, cb, ob, hr, fr, cp, bf, vc, co, mc, mu>>

\* one turn of the inner loop of the later objects
TaikoRollover ==
    /\ tk.pc = "loop"
    /\ tk.idx <= tk.n
    /\ tk.map[tk.idx].start_time > tk.current_section_end
    /\ tk' = [tk EXCEPT
                !.strain = Taiko_start_new_section_from(Taiko_save_current_peak(@),
                                                        tk.current_section_end * DS),
                !.carried = Append(@, tk.untouched),
                !.untouched = TRUE,
                !.current_section_end = @ + tk.section_len]
    /\ UNCHANGED <<dl, rd, ev, os, ck, pp, cb, ob, hr, fr, cp, bf, vc, co, mc, mu>>

TaikoProcess ==
    /\ tk.pc = "loop"
    /\ tk.idx <= tk.n
    /\ ~(tk.map[tk.idx].start_time > tk.current_section_end)
    /\ tk' = [tk EXCEPT !.strain = Taiko_process(@, TaikoCurrent),
                        !.untouched = FALSE,
                        !.idx = @ + 1]
    /\ UNCHANGED <<dl, rd, ev, os, ck, pp, cb, ob, hr, fr, cp, bf, vc, co, mc, mu>>

\* the save after the last object
TaikoFinalSave ==
    /\ tk.pc = "loop"
    /\ tk.idx > tk.n
    /\ tk' = [tk EXCEPT !.strain = Taiko_save_current_peak(@),
                        !.carried = Append(@, tk.untouched),
                        !.pc = "reduce"]
    /\ UNCHANGED <<dl, rd, ev, os, ck, pp, cb, ob, hr, fr, cp, bf, vc, co, mc, mu>>

\* difficulty_value() * STAR_SCALING_FACTOR, in FP
TaikoStars(difficulty) == ((difficulty \div WS) * Taiko_STAR_SCALING_FACTOR) \div 100000

TaikoReduce ==
    /\ tk.pc = "reduce"
    /\ LET dv == Taiko_difficulty_value(tk.strain)
       IN  tk' = [tk EXCEPT
                    !.strain = dv.skill,
                    !.difficulty = Some(dv.value),
                    !.attrs = Some([stars |-> TaikoStars(dv.value),
                                    max_combo |-> n_circles(tk.map)]),
                    !.pc = "done"]
    /\ UNCHANGED <<dl, rd, ev, os, ck, pp, cb, ob, hr, fr, cp, bf, vc, co, mc, mu>>

\* difficulty_value once more on the skill of the finished call
TaikoReduceAgain ==
    /\ tk.pc = "done"
    /\ tk.difficulty # None
    /\ tk.again = None
    /\ LET dv == Taiko_difficulty_value(tk.strain)
       IN  tk' = [tk EXCEPT !.strain = dv.skill, !.again = Some(dv.value)]
    /\ UNCHANGED <<dl, rd, ev, os, ck, pp, cb, ob, hr, fr, cp, bf, vc, co, mc, mu>>

\* the same call once more
TaikoAgain ==
    /\ tk.pc = "done"
    /\ tk.runs < MaxRuns
    /\ tk' = [tk EXCEPT !.pc = "call", !.runs = @ + 1, !.last_attrs = tk.attrs]
    /\ UNCHANGED <<dl, rd, ev, os, ck, pp, cb, ob, hr, fr, cp, bf, vc, co, mc, mu>>

Idle == [pc |-> "idle"]

InitTaiko ==
    /\ tk \in { TaikoCall(map, mods, passed) :
                  map \in Charts(TaikoKinds), mods \in ModSet, passed \in PassedSet }
    /\ dl = Idle /\ rd = Idle /\ ev = Idle /\ os = Idle /\ ck = Idle /\ pp = Idle /\ cb = Idle /\ ob = Idle /\ hr = Idle /\ fr = Idle /\ cp = Idle /\ bf = Idle /\ vc = Idle /\ co = Idle /\ mc = Idle /\ mu = Idle

NextTaiko ==
    \/ TaikoBegin
    \/ TaikoSkipSection
    \/ TaikoProcessFirst
    \/ TaikoRollover
    \/ TaikoProcess
    \/ TaikoFinalSave
    \/ TaikoReduce
    \/ TaikoReduceAgain
    \/ TaikoAgain

SpecTaiko == InitTaiko /\ [][NextTaiko]_vars

(***************************************************************************)
(* Properties of taiko_ppv1::stars                                         *)
(***************************************************************************)
TaikoFewObjects ==
    \/ Len(tk.map) < 2
    \/ tk.passed_objects # None /\ unwrap(tk.passed_objects) < 2

\* C1: a call on a beatmap of fewer than 2 objects, or with passed_objects
\* below 2, returns 0 stars and a max combo of 0.
C1_FewObjectsAllZero ==
    (tk.pc \in {"done", "panic"} /\ TaikoFewObjects)
        => tk.attrs = Some([stars |-> 0, max_combo |-> 0])

\* C2: a call never aborts, whatever the beatmap and passed_objects.
C2_NeverAborts == tk.pc # "panic"

TaikoGapOfThreeAndAHalf(i) ==
    /\ Len(tk.map) >= i
    /\ 2 * (tk.map[i].start_time - tk.map[i - 1].start_time) = 7 * tk.section_len

\* the skill after the second object, and the end of that object's section
TaikoAfterSecond ==
    Taiko_process(Taiko_Strain_new,
                  Taiko_DifficultyObject_new(tk.map[2], tk.map[1], Mods_clock_rate(tk.mods)))
TaikoSecondEnd == CeilDiv(tk.map[2].start_time, tk.section_len) * tk.section_len

Length(a, b) ==
    LET dx == a[1] - b[1]
        dy == a[2] - b[2]
    IN  ISqrt((dx * dx + dy * dy) * 10000) * 10

OsuObject(time, pos, end_pos, travel_dist) ==
    [time |-> time, pos |-> pos, end_pos |-> end_pos, travel_dist |-> travel_dist]

unwrap_or(o, default) == IF o = None THEN default ELSE unwrap(o)

\* osu_2015 with the delta of osu_2018
Osu2015_DifficultyObject_unfloored(base, prev, clock_rate, scaling_factor) ==
    [ base |-> base,
      travel_dist |-> unwrap_or(prev.travel_dist, 0),
      dist |-> MulFP(Length(base.pos, prev.end_pos), scaling_factor),
      delta |-> ((base.time - prev.time) * 100) \div clock_rate ]

\* time and delta in DS, distances and scaling_factor in FP, clock_rate in
\* hundredths
Osu2015_DifficultyObject_new(base, prev, clock_rate, scaling_factor) ==
    [ base |-> base,
      travel_dist |-> unwrap_or(prev.travel_dist, 0),
      dist |-> MulFP(Length(base.pos, prev.end_pos), scaling_factor),
      delta |-> Max(((base.time - prev.time) * 100) \div clock_rate, 50 * DS) ]

Osu2018_DifficultyObject_new(base, prev, clock_rate, scaling_factor) ==
    [ base |-> base,
      dist |-> MulFP(unwrap_or(prev.travel_dist, 0) + Length(base.pos, prev.end_pos),
                     scaling_factor),
      delta |-> ((base.time - prev.time) * 100) \div clock_rate ]

\* clock rates from 0.01 to 100, in hundredths
DeltaRates == {1, 75, 100, 150, 10000}
DeltaPrevTimes == {0, 1000}
DeltaGaps == {0, 1, 49, 50, 75, 5000}
DeltaPositions == {<<0, 0>>, <<30, 40>>}
DeltaTravels == {None, Some(2 * FP)}
DeltaScalings == {FP, (FP * 13) \div 10}

OsuPairs ==
    { [ prev |-> OsuObject(t * DS, <<0, 0>>, e, d),
        base |-> OsuObject((t + g) * DS, p, p, None) ] :
        t \in DeltaPrevTimes, g \in DeltaGaps, p \in DeltaPositions,
        e \in DeltaPositions, d \in DeltaTravels }

TaikoPairs ==
    { [ prev |-> HitObject(t, k), base |-> HitObject(t + g, j) ] :
        t \in DeltaPrevTimes, g \in DeltaGaps, k \in TaikoKinds, j \in TaikoKinds }

\* the arguments of one call of DifficultyObject::new
DeltaArgs(mode, pair, r, f) ==
    [ pc |-> "args", mode |-> mode, base |-> pair.base, prev |-> pair.prev,
      clock_rate |-> r, scaling_factor |-> f ]

DeltaBuilt(gap, obj) ==
    [ pc |-> "built", mode |-> dl.mode, gap |-> gap, clock_rate |-> dl.clock_rate,
      obj |-> obj ]

Osu2015New ==
    /\ dl.pc = "args" /\ dl.mode = "osu_2015"
    /\ dl' = DeltaBuilt(dl.base.time - dl.prev.time,
                        Osu2015_DifficultyObject_new(dl.base, dl.prev, dl.clock_rate,
                                                     dl.scaling_factor))
    /\ UNCHANGED <<tk, rd, ev, os, ck, pp, cb, ob, hr, fr, cp, bf, vc, co, mc, mu>>

Osu2018New ==
    /\ dl.pc = "args" /\ dl.mode = "osu_2018"
    /\ dl' = DeltaBuilt(dl.base.time - dl.prev.time,
                        Osu2018_DifficultyObject_new(dl.base, dl.prev, dl.clock_rate,
                                                     dl.scaling_factor))
    /\ UNCHANGED <<tk, rd, ev, os, ck, pp, cb, ob, hr, fr, cp, bf, vc, co, mc, mu>>

TaikoNew ==
    /\ dl.pc = "args" /\ dl.mode = "taiko_ppv1"
    /\ dl' = DeltaBuilt((dl.base.start_time - dl.prev.start_time) * DS,
                        Taiko_DifficultyObject_new(dl.base, dl.prev, dl.clock_rate))
    /\ UNCHANGED <<tk, rd, ev, os, ck, pp, cb, ob, hr, fr, cp, bf, vc, co, mc, mu>>

InitDelta ==
    /\ dl \in { DeltaArgs(mode, pair, r, f) :
                  mode \in {"osu_2015", "osu_2018"}, pair \in OsuPairs,
                  r \in DeltaRates, f \in DeltaScalings }
              \cup { DeltaArgs("taiko_ppv1", pair, r, FP) :
                       pair \in TaikoPairs, r \in DeltaRates }
    /\ tk = Idle /\ rd = Idle /\ ev = Idle /\ os = Idle /\ ck = Idle /\ pp = Idle /\ cb = Idle /\ ob = Idle /\ hr = Idle /\ fr = Idle /\ cp = Idle /\ bf = Idle /\ vc = Idle /\ co = Idle /\ mc = Idle /\ mu = Idle

NextDelta == Osu2015New \/ Osu2018New \/ TaikoNew

SpecDelta == InitDelta /\ [][NextDelta]_vars

\* d is gap / r cut to the grid of DS, for a gap t_i - t_{i-1} in DS
IsQuotient(d, gap, rate) ==
    /\ d * rate <= gap * 100
    /\ gap * 100 < (d + 1) * rate

Fruits_DECAY_WEIGHT == 94

Movement_new ==
    [ last_player_position |-> None,
      last_distance_moved |-> 0,
      current_strain |-> FP,
      current_section_peak |-> FP,
      strain_peaks |-> <<>>,
      prev_time |-> None ]

Movement_save_current_peak(s) ==
    [s EXCEPT !.strain_peaks = Append(s.strain_peaks, s.current_section_peak)]

Movement_difficulty_value(s) ==
    LET sorted == SortDesc(s.strain_peaks)
    IN  [ value |-> WeightedSum(sorted, WS, Fruits_DECAY_WEIGHT),
          skill |-> [s EXCEPT !.strain_peaks = sorted] ]

\* the most peaks of a modelled skill
MaxPeaks == 4

\* section peaks, in FP
PeakValues == {0, 500, 1000, 2500}

\* a section ends with peak p: save_current_peak
ReduceSave ==
    /\ rd.pc \in {"open", "reduced"}
    /\ Len(rd.skill.strain_peaks) < MaxPeaks
    /\ \E p \in PeakValues :
         LET s == [rd.skill EXCEPT !.current_section_peak = p]
         IN  rd' = [rd EXCEPT
                      !.pc = "open",
                      !.skill = IF rd.mode = "taiko_ppv1"
                                THEN Taiko_save_current_peak(s)
                                ELSE Movement_save_current_peak(s),
                      !.recorded = Append(@, p)]
    /\ UNCHANGED <<tk, dl, ev, os, ck, pp, cb, ob, hr, fr, cp, bf, vc, co, mc, mu>>

TaikoDifficultyValue ==
    /\ rd.pc \in {"open", "reduced"}
    /\ rd.mode = "taiko_ppv1"
    /\ LET dv == Taiko_difficulty_value(rd.skill)
       IN  rd' = [rd EXCEPT !.pc = "reduced", !.skill = dv.skill,
                            !.before = rd.value, !.value = Some(dv.value)]
    /\ UNCHANGED <<tk, dl, ev, os, ck, pp, cb, ob, hr, fr, cp, bf, vc, co, mc, mu>>

MovementDifficultyValue ==
    /\ rd.pc \in {"open", "reduced"}
    /\ rd.mode = "fruits_ppv1"
    /\ LET dv == Movement_difficulty_value(rd.skill)
       IN  rd' = [rd EXCEPT !.pc = "reduced", !.skill = dv.skill,
                            !.before = rd.value, !.value = Some(dv.value)]
    /\ UNCHANGED <<tk, dl, ev, os, ck, pp, cb, ob, hr, fr, cp, bf, vc, co, mc, mu>>

\* util StrainsVec: the entries are values or counts of consecutive zeros
StrainsVec_with_capacity == [inner |-> <<>>, len |-> 0]

StrainsVec_push(v, value) ==
    LET n == Len(v.inner)
    IN  [ len |-> v.len + 1,
          inner |-> IF value > 0
                    THEN Append(v.inner, [zero_count |-> 0, value |-> value])
                    ELSE IF n > 0 /\ v.inner[n].zero_count > 0
                    THEN [v.inner EXCEPT ![n].zero_count = @ + 1]
                    ELSE Append(v.inner, [zero_count |-> 1, value |-> 0]) ]

StrainsVec_retain_non_zero(v) ==
    [v EXCEPT !.inner = SelectSeq(v.inner, LAMBDA entry : entry.zero_count = 0)]

StrainsVec_sort_desc(v) ==
    [v EXCEPT !.inner = [i \in 1..Len(v.inner) |->
                           [zero_count |-> v.inner[i].zero_count,
                            value |-> SortDesc([j \in 1..Len(v.inner) |-> v.inner[j].value])[i]]]]

\* the zeros removed and the entries left as they were pushed
StrainsVec_retain_only(v) == StrainsVec_retain_non_zero(v)

StrainsVec_retain_non_zero_and_sort(v) == StrainsVec_sort_desc(StrainsVec_retain_non_zero(v))

\* the values the iterator yields
StrainsVec_non_zero_iter(v) == [i \in 1..Len(v.inner) |-> v.inner[i].value]

StrainsVecPush ==
    /\ rd.pc \in {"pushing", "sorted"}
    /\ rd.skill.len < MaxPeaks
    /\ \E p \in PeakValues :
         rd' = [rd EXCEPT !.pc = "pushing", !.skill = StrainsVec_push(@, p),
                          !.recorded = Append(@, p)]
    /\ UNCHANGED <<tk, dl, ev, os, ck, pp, cb, ob, hr, fr, cp, bf, vc, co, mc, mu>>

\* sorted_non_zero_iter
StrainsVecSortedNonZeroIter ==
    /\ rd.pc \in {"pushing", "sorted"}
    /\ rd' = [rd EXCEPT !.pc = "sorted", !.skill = StrainsVec_retain_non_zero_and_sort(@)]
    /\ UNCHANGED <<tk, dl, ev, os, ck, pp, cb, ob, hr, fr, cp, bf, vc, co, mc, mu>>

InitReduce ==
    /\ rd \in { [ pc |-> "open", mode |-> "taiko_ppv1", skill |-> Taiko_Strain_new,
                  recorded |-> <<>>, value |-> None, before |-> None ],
                [ pc |-> "open", mode |-> "fruits_ppv1", skill |-> Movement_new,
                  recorded |-> <<>>, value |-> None, before |-> None ],
                [ pc |-> "pushing", mode |-> "strains_vec", skill |-> StrainsVec_with_capacity,
                  recorded |-> <<>>, value |-> None, before |-> None ] }
    /\ tk = Idle /\ dl = Idle /\ ev = Idle /\ os = Idle /\ ck = Idle /\ pp = Idle /\ cb = Idle /\ ob = Idle /\ hr = Idle /\ fr = Idle /\ cp = Idle /\ bf = Idle /\ vc = Idle /\ co = Idle /\ mc = Idle /\ mu = Idle

NextReduce ==
    \/ ReduceSave \/ TaikoDifficultyValue \/ MovementDifficultyValue
    \/ StrainsVecPush \/ StrainsVecSortedNonZeroIter

SpecReduce == InitReduce /\ [][NextReduce]_vars

\* difficulty_value of a skill that recorded the given peaks
DifficultyValueOf(mode, peaks) ==
    IF mode = "taiko_ppv1"
    THEN Taiko_difficulty_value([Taiko_Strain_new EXCEPT !.strain_peaks = peaks]).value
    ELSE Movement_difficulty_value([Movement_new EXCEPT !.strain_peaks = peaks]).value

Swap(seq, i, j) == [seq EXCEPT ![i] = seq[j], ![j] = seq[i]]

\* C6: difficulty_value does not decrease when a non-negative peak is added,
\* and is the same for every order in which the peaks were recorded.
C6_MonotoneAnyOrder ==
    rd.pc = "reduced" =>
        /\ rd.before # None => unwrap(rd.value) >= unwrap(rd.before)
        /\ \A p \in PeakValues :
             DifficultyValueOf(rd.mode, Append(rd.recorded, p)) >= unwrap(rd.value)
        /\ \A i, j \in 1..Len(rd.recorded) :
             DifficultyValueOf(rd.mode, Swap(rd.recorded, i, j)) = unwrap(rd.value)

C6_Witness ==
    /\ rd.pc = "reduced"
    /\ Len(rd.recorded) = MaxPeaks
    /\ rd.recorded # rd.skill.strain_peaks
    /\ rd.before # None
    /\ unwrap(rd.value) > unwrap(rd.before)

(***************************************************************************)
(* taiko_2022: DifficultyValues::eval                                      *)
(*                                                                         *)
(* The difficulty values are whole multiples of 1/27, so that their        *)
(* product with DIFFICULTY_MULTIPLIER = 1.35 = 27/20 is exact in FP.       *)
(***************************************************************************)
\* 1.35, in hundredths
Taiko2022_DIFFICULTY_MULTIPLIER == 135

\* difficulty_value * DIFFICULTY_MULTIPLIER, in FP
Taiko2022_rating(difficulty_value) ==
    (difficulty_value * Taiko2022_DIFFICULTY_MULTIPLIER * FP) \div (100 * 27)

\* stars in FP
rescale(stars) ==
    IF stars < 0 THEN stars
    ELSE (1043 * LnFP(stars \div 8 + FP)) \div 100

\* eval with the stamina bound included
Taiko2022_eval_inclusive(attrs, color_difficulty_value, rhythm_difficulty_value, stamina_difficulty_value, peaks_difficulty_value) ==
    LET color_rating == Taiko2022_rating(color_difficulty_value)
        rhythm_rating == Taiko2022_rating(rhythm_difficulty_value)
        stamina_rating == Taiko2022_rating(stamina_difficulty_value)
        combined_rating == Taiko2022_rating(peaks_difficulty_value)
        rescaled == rescale((combined_rating * 14) \div 10)
        converted == (rescaled * 925) \div 1000
        star_rating ==
            IF attrs.is_convert
            THEN IF color_rating < 2 * FP /\ stamina_rating >= 8 * FP
                 THEN (converted * 8) \div 10
                 ELSE converted
            ELSE rescaled
    IN  [attrs EXCEPT !.stamina = stamina_rating,
                      !.rhythm = rhythm_rating,
                      !.color = color_rating,
                      !.peak = combined_rating,
                      !.stars = star_rating]

Taiko2022_eval(attrs, color_difficulty_value, rhythm_difficulty_value, stamina_difficulty_value, peaks_difficulty_value) ==
    LET color_rating == Taiko2022_rating(color_difficulty_value)
        rhythm_rating == Taiko2022_rating(rhythm_difficulty_value)
        stamina_rating == Taiko2022_rating(stamina_difficulty_value)
        combined_rating == Taiko2022_rating(peaks_difficulty_value)
        rescaled == rescale((combined_rating * 14) \div 10)
        converted == (rescaled * 925) \div 1000
        star_rating ==
            IF attrs.is_convert
            THEN IF color_rating < 2 * FP /\ stamina_rating > 8 * FP
                 THEN (converted * 8) \div 10
                 ELSE converted
            ELSE rescaled
    IN  [attrs EXCEPT !.stamina = stamina_rating,
                      !.rhythm = rhythm_rating,
                      !.color = color_rating,
                      !.peak = combined_rating,
                      !.stars = star_rating]

\* difficulty values in 1/27: colour ratings 1.5, 1.95, 2.0 and 2.05, stamina
\* ratings from 7.0 to 9.0 around 8.0, combined ratings 0, 3.0 and 6.0
EvalColors == {30, 39, 40, 41}
EvalRhythms == {20}
EvalStaminas == {140, 159, 160, 161, 180}
EvalPeaks == {0, 60, 120}

Taiko2022_attrs(is_convert) ==
    [stamina |-> 0, rhythm |-> 0, color |-> 0, peak |-> 0, stars |-> 0,
     is_convert |-> is_convert]

TaikoEval ==
    /\ ev.pc = "args"
    /\ ev' = [ev EXCEPT
                !.pc = "evaluated",
                !.attrs = Taiko2022_eval(@, ev.color, ev.rhythm, ev.stamina, ev.peaks)]
    /\ UNCHANGED <<tk, dl, rd, os, ck, pp, cb, ob, hr, fr, cp, bf, vc, co, mc, mu>>

InitTaikoEval ==
    /\ ev \in { [ pc |-> "args", attrs |-> Taiko2022_attrs(conv),
                  color |-> c, rhythm |-> r, stamina |-> st, peaks |-> p ] :
                  conv \in BOOLEAN, c \in EvalColors, r \in EvalRhythms,
                  st \in EvalStaminas, p \in EvalPeaks }
    /\ tk = Idle /\ dl = Idle /\ rd = Idle /\ os = Idle /\ ck = Idle /\ pp = Idle /\ cb = Idle /\ ob = Idle /\ hr = Idle /\ fr = Idle /\ cp = Idle /\ bf = Idle /\ vc = Idle /\ co = Idle /\ mc = Idle /\ mu = Idle

NextTaikoEval == TaikoEval

SpecTaikoEval == InitTaikoEval /\ [][NextTaikoEval]_vars

\* the star rating before any multiplier of converts
EvalRescaled == rescale((ev.attrs.peak * 14) \div 10)

\* C7: with a colour rating of 1.5 the star rating of a convert is its
\* 0.925-scaled rating times 0.8 exactly when the stamina rating is above 8.0,
\* not at 8.0; the star rating of a map that is no convert carries no
\* multiplier, whatever the stamina rating.
C7_ConvertPenalty ==
    (ev.pc = "evaluated" /\ ev.attrs.color = (3 * FP) \div 2) =>
        /\ ev.attrs.stamina = ev.stamina * 50
        /\ ~ev.attrs.is_convert => ev.attrs.stars = EvalRescaled
        /\ (ev.attrs.is_convert /\ ev.attrs.stamina > 8 * FP)
             => ev.attrs.stars = (((EvalRescaled * 925) \div 1000) * 8) \div 10
        /\ (ev.attrs.is_convert /\ ev.attrs.stamina <= 8 * FP)
             => ev.attrs.stars = (EvalRescaled * 925) \div 1000

C7_Witness ==
    /\ ev.pc = "evaluated"
    /\ ev.attrs.color = (3 * FP) \div 2
    /\ ev.attrs.is_convert
    /\ ev.attrs.stamina = 8 * FP
    /\ ev.attrs.stars > 0
    /\ ev.attrs.stars = (EvalRescaled * 925) \div 1000

(***************************************************************************)
(* osu_2018, osu_2021_january and osu_2021_july: stars                     *)
(*                                                                         *)
(* Times and deltas are in DS.  The strain value of a difficulty object    *)
(* for the aim and the speed skill is given with its base object.          *)
(***************************************************************************)
Osu_SECTION_LEN == 400
\* 0.0675, in 1/10000
Osu_DIFFICULTY_MULTIPLIER == 675

\* the skill multiplier in hundredths, the strain decay base in FP and the
\* decay weight in hundredths
Osu_skill_multiplier(kind) == IF kind = "Aim" THEN 2625 ELSE 140000
Osu_strain_decay_base(kind) == IF kind = "Aim" THEN 150 ELSE 300
Osu_DECAY_WEIGHT == 90

Osu_Skill_new(kind) ==
    [ kind |-> kind,
      current_strain |-> FP,
      current_section_peak |-> FP,
      strain_peaks |-> <<>>,
      prev_time |-> None ]

Osu_strain_decay(kind, ms) ==
    ExpFP((ms * (0 - LnFP(DivFP(FP, Osu_strain_decay_base(kind))))) \div (DS * 1000))

Osu_strain_value_of(kind, h) ==
    IF kind = "Aim" THEN h.base.aim_value ELSE h.base.speed_value

Osu_Skill_process(s, h) ==
    LET strain == MulFP(s.current_strain, Osu_strain_decay(s.kind, h.delta))
                    + (Osu_strain_value_of(s.kind, h) * Osu_skill_multiplier(s.kind)) \div 100
    IN  [s EXCEPT !.current_strain = strain,
                  !.current_section_peak = Max(strain, s.current_section_peak),
                  !.prev_time = Some(h.base.time)]

Osu_Skill_save_current_peak(s) ==
    [s EXCEPT !.strain_peaks = Append(s.strain_peaks, s.current_section_peak)]

Osu_Skill_start_new_section_from(s, time) ==
    [s EXCEPT !.current_section_peak =
        MulFP(s.current_strain, Osu_strain_decay(s.kind, time - unwrap(s.prev_time)))]

\* in FP * WS
Osu_Skill_difficulty_value(s) ==
    WeightedSum(SortDesc(s.strain_peaks), WS, Osu_DECAY_WEIGHT)

\* difficulty_value().sqrt() * DIFFICULTY_MULTIPLIER, in millionths
Osu_rating(difficulty_value) ==
    (ISqrt(difficulty_value \div 10) * Osu_DIFFICULTY_MULTIPLIER) \div 10

\* the star rating without the term of the difference
Osu_star_rating_sum(aim_strain, speed_strain) == aim_strain + speed_strain

Osu_star_rating(aim_strain, speed_strain) ==
    aim_strain + speed_strain + Abs(aim_strain - speed_strain) \div 2

\* DifficultyObject::new of osu_2021_january, and of osu_2021_july with a
\* clock rate of 1 as the times are divided by the clock rate before
Osu2021_DifficultyObject_new(base, prev, clock_rate) ==
    [ base |-> base,
      delta |-> ((base.time - prev.time) * 100) \div clock_rate,
      strain_time |-> Max(((base.time - prev.time) * 100) \div clock_rate, 50 * DS) ]

OsuRevisions == {"osu_2018", "osu_2021_january", "osu_2021_july"}
OsuGaps == {500, 1300}
OsuAimValues == {0, 200}
OsuSpeedValues == {2, 5}

\* a circle at time t (ms) whose difficulty object has the strain values a, s
OsuCircle(t, a, s) ==
    [ time |-> t * DS, pos |-> <<0, 0>>, end_pos |-> <<0, 0>>, travel_dist |-> None,
      aim_value |-> a, speed_value |-> s ]

RECURSIVE OsuChartsOfLen(_)
OsuChartsOfLen(n) ==
    IF n = 0 THEN {<<>>}
    ELSE IF n = 1 THEN { <<OsuCircle(0, 0, 0)>> }
    ELSE { Append(c, OsuCircle(c[n - 1].time \div DS + g, a, sp)) :
             c \in OsuChartsOfLen(n - 1), g \in OsuGaps,
             a \in OsuAimValues, sp \in OsuSpeedValues }

OsuCharts == UNION { OsuChartsOfLen(n) : n \in 0..MaxObjects }

OsuCall(revision, map, mods, passed_objects) ==
    [ pc |-> "call",
      revision |-> revision,
      map |-> map,
      mods |-> mods,
      passed_objects |-> passed_objects,
      objects |-> <<>>,
      idx |-> 0,
      section_len |-> 0,
      current_section_end |-> 0,
      aim |-> None,
      speed |-> None,
      attrs |-> None ]

\* the objects of the call: take(take), and for osu_2021_july the times
\* divided by the clock rate
OsuObjects(revision, map, take, clock_rate) ==
    [ i \in 1..Min(take, Len(map)) |->
        IF revision = "osu_2021_july"
        THEN [map[i] EXCEPT !.time = (@ * 100) \div clock_rate]
        ELSE map[i] ]

OsuCurrent ==
    LET base == os.objects[os.idx]
        prev == os.objects[os.idx - 1]
        clock_rate == Mods_clock_rate(os.mods)
    IN  IF os.revision = "osu_2018"
        THEN Osu2018_DifficultyObject_new(base, prev, clock_rate, FP)
        ELSE IF os.revision = "osu_2021_january"
        THEN Osu2021_DifficultyObject_new(base, prev, clock_rate)
        ELSE Osu2021_DifficultyObject_new(base, prev, 100)

\* stars up to the second object: the early return, the skills, the first
\* section's end
OsuBegin ==
    /\ os.pc = "call"
    /\ LET take == unwrap_or(os.passed_objects, Len(os.map))
           clock_rate == Mods_clock_rate(os.mods)
           objects == OsuObjects(os.revision, os.map, take, clock_rate)
           section_len ==
               IF os.revision = "osu_2021_july" THEN Osu_SECTION_LEN * DS
               ELSE (Osu_SECTION_LEN * clock_rate * DS) \div 100
       IN  IF take < 2
           THEN os' = [os EXCEPT !.pc = "done",
                                 !.attrs = Some([stars |-> 0, aim_strain |-> 0,
                                                 speed_strain |-> 0])]
           ELSE IF Len(objects) < 2
           THEN os' = [os EXCEPT !.pc = "panic"]
           ELSE os' = [os EXCEPT
                         !.pc = "first",
                         !.objects = objects,
                         !.idx = 2,
                         !.section_len = section_len,
                         !.current_section_end =
                             IF os.revision = "osu_2018" THEN 2 * section_len
                             ELSE CeilDiv(objects[1].time, section_len) * section_len,
                         !.aim = Osu_Skill_new("Aim"),
                         !.speed = Osu_Skill_new("Speed")]
    /\ UNCHANGED <<tk, dl, rd, ev, ck, pp, cb, ob, hr, fr, cp, bf, vc, co, mc, mu>>

OsuSkipSection ==
    /\ os.pc = "first"
    /\ os.objects[os.idx].time > os.current_section_end
    /\ os' = [os EXCEPT !.current_section_end = @ + os.section_len]
    /\ UNCHANGED <<tk, dl, rd, ev, ck, pp, cb, ob, hr, fr, cp, bf, vc, co, mc, mu>>

OsuProcessFirst ==
    /\ os.pc = "first"
    /\ ~(os.objects[os.idx].time > os.current_section_end)
    /\ os' = [os EXCEPT !.aim = Osu_Skill_process(@, OsuCurrent),
                        !.speed = Osu_Skill_process(@, OsuCurrent),
                        !.idx = @ + 1,
                        !.pc = "loop"]
    /\ UNCHANGED <<tk, dl, rd, ev, ck, pp, cb, ob, hr, fr, cp, bf, vc, co, mc, mu>>

OsuRollover ==
    /\ os.pc = "loop"
    /\ os.idx <= Len(os.objects)
    /\ os.objects[os.idx].time > os.current_section_end
    /\ os' = [os EXCEPT
                !.aim = Osu_Skill_start_new_section_from(
                            Osu_Skill_save_current_peak(@), os.current_section_end),
                !.speed = Osu_Skill_start_new_section_from(
                              Osu_Skill_save_current_peak(@), os.current_section_end),
                !.current_section_end = @ + os.section_len]
    /\ UNCHANGED <<tk, dl, rd, ev, ck, pp, cb, ob, hr, fr, cp, bf, vc, co, mc, mu>>

OsuProcess ==
    /\ os.pc = "loop"
    /\ os.idx <= Len(os.objects)
    /\ ~(os.objects[os.idx].time > os.current_section_end)
    /\ os' = [os EXCEPT !.aim = Osu_Skill_process(@, OsuCurrent),
                        !.speed = Osu_Skill_process(@, OsuCurrent),
                        !.idx = @ + 1]
    /\ UNCHANGED <<tk, dl, rd, ev, ck, pp, cb, ob, hr, fr, cp, bf, vc, co, mc, mu>>

\* the save after the last object, of osu_2021_january and osu_2021_july
OsuFinalSave ==
    /\ os.pc = "loop"
    /\ os.idx > Len(os.objects)
    /\ os.revision # "osu_2018"
    /\ os' = [os EXCEPT !.aim = Osu_Skill_save_current_peak(@),
                        !.speed = Osu_Skill_save_current_peak(@),
                        !.pc = "rate"]
    /\ UNCHANGED <<tk, dl, rd, ev, ck, pp, cb, ob, hr, fr, cp, bf, vc, co, mc, mu>>

\* the ratings and the stars; osu_2018 comes here from its loop without a save
OsuRate ==
    /\ \/ os.pc = "rate"
       \/ os.pc = "loop" /\ os.idx > Len(os.objects) /\ os.revision = "osu_2018"
    /\ LET aim_strain == Osu_rating(Osu_Skill_difficulty_value(os.aim))
           speed_strain == Osu_rating(Osu_Skill_difficulty_value(os.speed))
       IN  os' = [os EXCEPT
                    !.aim.strain_peaks = SortDesc(@),
                    !.speed.strain_peaks = SortDesc(@),
                    !.attrs = Some([stars |-> Osu_star_rating(aim_strain, speed_strain),
                                    aim_strain |-> aim_strain,
                                    speed_strain |-> speed_strain]),
                    !.pc = "done"]
    /\ UNCHANGED <<tk, dl, rd, ev, ck, pp, cb, ob, hr, fr, cp, bf, vc, co, mc, mu>>

InitOsu ==
    /\ os \in { OsuCall(revision, map, mods, passed) :
                  revision \in OsuRevisions, map \in OsuCharts,
                  mods \in ModSet, passed \in PassedSet }
    /\ tk = Idle /\ dl = Idle /\ rd = Idle /\ ev = Idle /\ ck = Idle /\ pp = Idle /\ cb = Idle /\ ob = Idle /\ hr = Idle /\ fr = Idle /\ cp = Idle /\ bf = Idle /\ vc = Idle /\ co = Idle /\ mc = Idle /\ mu = Idle

NextOsu ==
    \/ OsuBegin
    \/ OsuSkipSection
    \/ OsuProcessFirst
    \/ OsuRollover
    \/ OsuProcess
    \/ OsuFinalSave
    \/ OsuRate

SpecOsu == InitOsu /\ [][NextOsu]_vars

\* the call on two objects at 0 and 500 ms with a clock rate of 1 has returned
OsuTwoObjectsDone ==
    /\ os.pc = "done"
    /\ os.aim # None
    /\ Len(os.map) = 2
    /\ os.map[1].time = 0
    /\ os.map[2].time = 500 * DS
    /\ os.mods = NoMod

\* the section peak after the only process call of a skill
OsuOnlyPeak(kind) ==
    Max(FP, MulFP(FP, Osu_strain_decay(kind, 500 * DS))
              + (Osu_strain_value_of(kind, [base |-> os.map[2]])
                   * Osu_skill_multiplier(kind)) \div 100)

\* sqrt(peak) * 0.0675, in millionths
OsuRatingOfPeak(peak) == (ISqrt((peak * WS) \div 10) * Osu_DIFFICULTY_MULTIPLIER) \div 10

Rate(num, den) == [num |-> num, den |-> den]

RECURSIVE F32Den(_, _)
\* 2^(23 - e) for the e with 2^e <= n / 100 < 2^(e + 1), n > 0
F32Den(n, den) ==
    IF n * den < 100 * Pow2(23) THEN F32Den(n, den * 2)
    ELSE IF n * (den \div 2) >= 100 * Pow2(23) THEN F32Den(n, den \div 2)
    ELSE den

\* n / 100 as f32, n > 0: the nearest 24-bit mantissa, ties to even
F32Of(n) ==
    LET den == F32Den(n, Pow2(16))
        q == (n * den) \div 100
        r == (n * den) % 100
        m == IF r > 50 \/ (r = 50 /\ q % 2 = 1) THEN q + 1 ELSE q
    IN  IF m = Pow2(24) THEN Rate(Pow2(23), den \div 2) ELSE Rate(m, den)

\* a < b of two f32
F32Less(a, b) == a.den > b.den \/ (a.den = b.den /\ a.num < b.num)

\* (clock_rate as f32).clamp(0.01, 100.0)
F32Clamp(n) ==
    IF n <= 0 THEN F32Of(1)
    ELSE IF F32Less(F32Of(n), F32Of(1)) THEN F32Of(1)
    ELSE IF F32Less(F32Of(10000), F32Of(n)) THEN F32Of(10000)
    ELSE F32Of(n)

\* clock_rate.clamp(0.01, 100.0) of an f64
F64Clamp(n) == Rate(Max(1, Min(10000, n)), 100)

Builder_new(kind) == [kind |-> kind, mods |-> NoMod, clock_rate |-> None]

Builder_clock_rate(b, n) ==
    [b EXCEPT !.clock_rate =
        Some(IF b.kind = "any_2024" THEN F64Clamp(n) ELSE F32Clamp(n))]

\* get_clock_rate: the override, or else the rate of the mods, as f64
Builder_get_clock_rate(b) ==
    IF b.clock_rate # None THEN unwrap(b.clock_rate)
    ELSE IF b.kind = "any_2024" THEN Rate(Mods_clock_rate(b.mods), 100)
    ELSE F32Of(Mods_clock_rate(b.mods))

\* arguments of clock_rate, in hundredths
ClockArgs == {0 - 100, 0, 1, 2, 75, 100, 110, 150, 10000, 10001, 20000}
ClockMods == [dt : BOOLEAN, ht : BOOLEAN]

ClockSetMods ==
    /\ \E m \in ClockMods :
         ck' = [ck EXCEPT !.builder.mods = m, !.got = None]
    /\ UNCHANGED <<tk, dl, rd, ev, os, pp, cb, ob, hr, fr, cp, bf, vc, co, mc, mu>>

ClockSetRate ==
    /\ \E n \in ClockArgs :
         ck' = [ck EXCEPT !.builder = Builder_clock_rate(@, n),
                          !.arg = Some(n), !.got = None]
    /\ UNCHANGED <<tk, dl, rd, ev, os, pp, cb, ob, hr, fr, cp, bf, vc, co, mc, mu>>

ClockGet ==
    /\ ck.got = None
    /\ ck' = [ck EXCEPT !.got = Some(Builder_get_clock_rate(ck.builder))]
    /\ UNCHANGED <<tk, dl, rd, ev, os, pp, cb, ob, hr, fr, cp, bf, vc, co, mc, mu>>

InitClock ==
    /\ ck \in { [builder |-> Builder_new(kind), arg |-> None, got |-> None] :
                  kind \in {"any_2024", "fruits_2022"} }
    /\ tk = Idle /\ dl = Idle /\ rd = Idle /\ ev = Idle /\ os = Idle /\ pp = Idle /\ cb = Idle /\ ob = Idle /\ hr = Idle /\ fr = Idle /\ cp = Idle /\ bf = Idle /\ vc = Idle /\ co = Idle /\ mc = Idle /\ mu = Idle

NextClock == ClockSetMods \/ ClockSetRate \/ ClockGet

SpecClock == InitClock /\ [][NextClock]_vars

\* the rate is n hundredths
IsHundredths(rate, n) ==
    /\ (rate.num * 100) % rate.den = 0
    /\ (rate.num * 100) \div rate.den = n

BelowMinimum(rate) == rate.num * 100 < rate.den
AboveMaximum(rate) ==
    \/ rate.num \div rate.den > 100
    \/ rate.num \div rate.den = 100 /\ rate.num % rate.den > 0

\* C9: get_clock_rate returns the argument of clock_rate clamped into
\* [0.01, 100] if there was one, else 1.5 with DoubleTime, else 0.75 with
\* HalfTime, else 1.0; it never returns less than 0.01 or more than 100.
C9_EffectiveClockRate ==
    ck.got # None =>
        LET rate == unwrap(ck.got)
        IN  /\ ~BelowMinimum(rate)
            /\ ~AboveMaximum(rate)
            /\ IsHundredths(rate,
                   IF ck.arg # None THEN Max(1, Min(10000, unwrap(ck.arg)))
                   ELSE IF ck.builder.mods.dt THEN 150
                   ELSE IF ck.builder.mods.ht THEN 75
                   ELSE 100)

(***************************************************************************)
(* Ratios of osu_2022 DifficultyValues::eval, mania_2018 ManiaPP::calculate*)
(* and fruits_2022 accuracy                                                *)
(*                                                                         *)
(* A float is a number in FP, an infinity or a NaN.  Every result carries  *)
(* zero_denominator: a division by exactly zero was evaluated for it.      *)
(***************************************************************************)
Num(v) == [kind |-> "num", v |-> v]
Inf == [kind |-> "inf", v |-> 0]
NaN == [kind |-> "nan", v |-> 0]

\* a / b of two non-negative numbers of the same scale, as a float
FDiv(a, b) ==
    IF b = 0 THEN (IF a = 0 THEN NaN ELSE Inf) ELSE Num((a * FP) \div b)

\* difficulty_value.sqrt() * DIFFICULTY_MULTIPLIER, in FP
Osu2022_rating(difficulty_value) ==
    (ISqrt(difficulty_value * FP) * Osu_DIFFICULTY_MULTIPLIER) \div 10000

\* slider_factor of eval
Osu2022_slider_factor(aim_difficulty_value, aim_no_sliders_difficulty_value) ==
    LET aim_rating == Osu2022_rating(aim_difficulty_value)
        aim_rating_no_sliders == Osu2022_rating(aim_no_sliders_difficulty_value)
    IN  IF aim_rating > 0
        THEN [value |-> FDiv(aim_rating_no_sliders, aim_rating),
              zero_denominator |-> FALSE]
        ELSE [value |-> Num(FP), zero_denominator |-> FALSE]

\* scaled_score of calculate: the score (1,000,000 by default) over
\* 0.5^(ez + nf + ht), over the share of passed objects
Mania2018_scaled_score(score, mods, passed_objects, map) ==
    LET halvings == (IF mods.ez THEN 1 ELSE 0) + (IF mods.nf THEN 1 ELSE 0)
                      + (IF mods.ht THEN 1 ELSE 0)
        scaled_score == IF score = None THEN 1000000 ELSE unwrap(score) * Pow2(halvings)
        passed == unwrap(passed_objects)
        total == map.n_circles + map.n_sliders
    IN  IF passed_objects = None
        THEN [value |-> Num(scaled_score), zero_denominator |-> FALSE]
        ELSE IF total = 0
        THEN \* percent_passed is 0 / 0 or passed / 0
             [value |-> IF passed = 0 THEN NaN ELSE Num(0), zero_denominator |-> TRUE]
        ELSE IF passed = 0
        THEN \* percent_passed is 0: scaled_score / 0
             [value |-> Inf, zero_denominator |-> TRUE]
        ELSE [value |-> Num((scaled_score * total) \div passed),
              zero_denominator |-> FALSE]

\* accuracy of fruits_2022
Catch_accuracy(n_fruits, n_droplets, n_tiny_droplets, n_tiny_droplet_misses, misses) ==
    LET numerator == n_fruits + n_droplets + n_tiny_droplets
        denominator == numerator + n_tiny_droplet_misses + misses
    IN  [value |-> FDiv(numerator, denominator),
         zero_denominator |-> denominator = 0]

\* the arguments: difficulty values in FP, scores, mods, passed objects,
\* object counts and hit counts
RatioArgs ==
    { [pc |-> "args", op |-> "osu_2022", aim |-> a, aim_no_sliders |-> n] :
        a \in {0, 4 * FP, 9 * FP}, n \in {0, 4 * FP, 9 * FP} }
    \cup
    { [pc |-> "args", op |-> "mania_2018", score |-> sc, mods |-> m, passed_objects |-> po,
       map |-> [n_circles |-> c, n_sliders |-> sl]] :
        sc \in {None, Some(800000)}, m \in [ez : BOOLEAN, nf : BOOLEAN, ht : BOOLEAN],
        po \in {None, Some(0), Some(1), Some(2)}, c \in 0..2, sl \in 0..1 }
    \cup
    { [pc |-> "args", op |-> "fruits_2022", counts |-> k] : k \in [1..5 -> 0..1] }

RatioDone(result) == [pc |-> "done", op |-> pp.op, args |-> pp, result |-> result]

OsuSliderFactor ==
    /\ pp.pc = "args" /\ pp.op = "osu_2022"
    /\ pp' = RatioDone(Osu2022_slider_factor(pp.aim, pp.aim_no_sliders))
    /\ UNCHANGED <<tk, dl, rd, ev, os, ck, cb, ob, hr, fr, cp, bf, vc, co, mc, mu>>

ManiaScaledScore ==
    /\ pp.pc = "args" /\ pp.op = "mania_2018"
    /\ pp' = RatioDone(Mania2018_scaled_score(pp.score, pp.mods, pp.passed_objects, pp.map))
    /\ UNCHANGED <<tk, dl, rd, ev, os, ck, cb, ob, hr, fr, cp, bf, vc, co, mc, mu>>

CatchAccuracy ==
    /\ pp.pc = "args" /\ pp.op = "fruits_2022"
    /\ pp' = RatioDone(Catch_accuracy(pp.counts[1], pp.counts[2], pp.counts[3],
                                      pp.counts[4], pp.counts[5]))
    /\ UNCHANGED <<tk, dl, rd, ev, os, ck, cb, ob, hr, fr, cp, bf, vc, co, mc, mu>>

InitRatio ==
    /\ pp \in RatioArgs
    /\ tk = Idle /\ dl = Idle /\ rd = Idle /\ ev = Idle /\ os = Idle /\ ck = Idle /\ cb = Idle /\ ob = Idle /\ hr = Idle /\ fr = Idle /\ cp = Idle /\ bf = Idle /\ vc = Idle /\ co = Idle /\ mc = Idle /\ mu = Idle

NextRatio == OsuSliderFactor \/ ManiaScaledScore \/ CatchAccuracy

SpecRatio == InitRatio /\ [][NextRatio]_vars

\* C10: no ratio is evaluated with a denominator of exactly zero: not the
\* slider factor, not the share of passed objects, not the accuracy.
C10_NoZeroDenominator == pp.pc = "done" => ~pp.result.zero_denominator

(***************************************************************************)
(* fruits_2022 ObjectCountBuilder                                          *)
(***************************************************************************)
MaxCalls == 4

ObjectCountBuilder_new(take) ==
    [count |-> [fruits |-> 0, droplets |-> 0, tiny_droplets |-> 0], take |-> take]

record_fruit(b) ==
    IF b.take > 0 THEN [b EXCEPT !.take = @ - 1, !.count.fruits = @ + 1] ELSE b

record_droplet(b) ==
    IF b.take > 0 THEN [b EXCEPT !.take = @ - 1, !.count.droplets = @ + 1] ELSE b

\* record_tiny_droplets without the check of take
record_tiny_droplets_always(b, n) == [b EXCEPT !.count.tiny_droplets = @ + n]

record_tiny_droplets(b, n) ==
    IF b.take > 0 THEN [b EXCEPT !.count.tiny_droplets = @ + n] ELSE b

\* k is the passed_objects the builder was created with, calls the number of
\* record_fruit / record_droplet calls, tiny the last record_tiny_droplets
\* call (its n, the tiny droplets and the calls before it) if it was the last call
RecordFruit ==
    /\ cb.pc = "recording" /\ cb.steps < MaxCalls
    /\ cb' = [cb EXCEPT !.builder = record_fruit(@), !.calls = @ + 1,
                        !.steps = @ + 1, !.tiny = None]
    /\ UNCHANGED <<tk, dl, rd, ev, os, ck, pp, ob, hr, fr, cp, bf, vc, co, mc, mu>>

RecordDroplet ==
    /\ cb.pc = "recording" /\ cb.steps < MaxCalls
    /\ cb' = [cb EXCEPT !.builder = record_droplet(@), !.calls = @ + 1,
                        !.steps = @ + 1, !.tiny = None]
    /\ UNCHANGED <<tk, dl, rd, ev, os, ck, pp, ob, hr, fr, cp, bf, vc, co, mc, mu>>

RecordTinyDroplets ==
    /\ cb.pc = "recording" /\ cb.steps < MaxCalls
    /\ \E n \in 0..2 :
         cb' = [cb EXCEPT !.builder = record_tiny_droplets(@, n), !.steps = @ + 1,
                          !.tiny = Some([n |-> n, before |-> cb.builder.count.tiny_droplets,
                                         calls |-> cb.calls])]
    /\ UNCHANGED <<tk, dl, rd, ev, os, ck, pp, ob, hr, fr, cp, bf, vc, co, mc, mu>>

InitCount ==
    /\ cb \in { [pc |-> "recording", builder |-> ObjectCountBuilder_new(k), k |-> k,
                 calls |-> 0, steps |-> 0, tiny |-> None] : k \in 0..(MaxCalls - 1) }
    /\ tk = Idle /\ dl = Idle /\ rd = Idle /\ ev = Idle /\ os = Idle /\ ck = Idle /\ pp = Idle /\ ob = Idle /\ hr = Idle /\ fr = Idle /\ cp = Idle /\ bf = Idle /\ vc = Idle /\ co = Idle /\ mc = Idle /\ mu = Idle

NextCount == RecordFruit \/ RecordDroplet \/ RecordTinyDroplets

SpecCount == InitCount /\ [][NextCount]_vars

\* C11: with passed_objects = k, fruits + droplets is the smaller of k and the
\* number of record_fruit / record_droplet calls, and record_tiny_droplets(n)
\* adds n exactly when fewer than k fruits and droplets were recorded before
\* it (and nothing otherwise).
C11_CountsTruncated ==
    cb.pc = "recording" =>
        /\ cb.builder.count.fruits + cb.builder.count.droplets = Min(cb.k, cb.calls)
        /\ cb.tiny # None =>
             cb.builder.count.tiny_droplets =
                 unwrap(cb.tiny).before
                   + (IF unwrap(cb.tiny).calls < cb.k THEN unwrap(cb.tiny).n ELSE 0)

\* a tiny-droplet call after the k-th fruit or droplet, and the list cut short
C11_Witness ==
    /\ cb.pc = "recording" /\ cb.tiny # None
    /\ cb.k > 0 /\ cb.calls > cb.k
    /\ unwrap(cb.tiny).n > 0 /\ unwrap(cb.tiny).before > 0

(***************************************************************************)
(* DifficultyValues::calculate and create_difficulty_objects of            *)
(* taiko_2022, mania_2022 and fruits_2022                                  *)
(*                                                                         *)
(* A chart is the sequence of its objects' is_hit; an object is named by   *)
(* its position in the chart, counted from 1.                              *)
(***************************************************************************)
MaxChart == 4

\* Iterator::take
take_n(objects, n) == SubSeq(objects, 1, Min(n, Len(objects)))

\* the inspect closure of create_difficulty_objects over the first n objects
RECURSIVE Taiko2022_inspect(_, _, _)
Taiko2022_inspect(map, take, n) ==
    IF n = 0 THEN [max_combo |-> 0, n_diff_objects |-> 0]
    ELSE LET seen == Taiko2022_inspect(map, take, n - 1)
         IN  IF seen.max_combo < take
             THEN [max_combo |-> seen.max_combo + (IF map[n] THEN 1 ELSE 0),
                   n_diff_objects |-> seen.n_diff_objects + 1]
             ELSE seen

\* the builder giving every object after the first a difficulty object
Taiko2022_create_difficulty_objects_after_first(map, take) ==
    [ counts |-> Taiko2022_inspect(map, take, Len(map)),
      diff_objects |->
          IF Len(map) < 2 THEN <<>>
          ELSE [i \in 1..(Len(map) - 1) |->
                  [idx |-> i - 1, base |-> i + 1, last |-> i, last_last |-> Max(i - 1, 1)]] ]

Taiko2022_create_difficulty_objects(map, take) ==
    [ counts |-> Taiko2022_inspect(map, take, Len(map)),
      diff_objects |->
          IF Len(map) < 2 THEN <<>>
          ELSE [i \in 1..(Len(map) - 2) |->
                  [idx |-> i - 1, base |-> i + 2, last |-> i + 1, last_last |-> i]] ]

\* calculate processing every difficulty object
Taiko2022_calculate_all(map, take) ==
    LET created == Taiko2022_create_difficulty_objects(map, take)
    IN  [ diff_objects |-> created.diff_objects, processed |-> created.diff_objects,
          max_combo |-> created.counts.max_combo ]

Taiko2022_calculate(map, take) ==
    LET created == Taiko2022_create_difficulty_objects(map, take)
        n_diff_objects == Max(created.counts.n_diff_objects - 2, 0)
    IN  [ diff_objects |-> created.diff_objects,
          processed |-> take_n(created.diff_objects, n_diff_objects),
          max_combo |-> created.counts.max_combo ]

\* the objects are the positions of the normalized objects
Mania2022_create_difficulty_objects(mania_objects) ==
    IF Len(mania_objects) = 0 THEN <<>>
    ELSE [i \in 1..(Len(mania_objects) - 1) |->
            [idx |-> i - 1, base |-> mania_objects[i + 1], last |-> mania_objects[i]]]

Mania2022_calculate(map, take) ==
    LET mania_objects == take_n([i \in 1..Len(map) |-> i], take)
        diff_objects == Mania2022_create_difficulty_objects(mania_objects)
    IN  [ objects |-> mania_objects, diff_objects |-> diff_objects,
          processed |-> diff_objects ]

Catch_create_difficulty_objects(palpable_objects) ==
    IF Len(palpable_objects) = 0 THEN <<>>
    ELSE [i \in 1..(Len(palpable_objects) - 1) |->
            [idx |-> i - 1, base |-> palpable_objects[i + 1],
             last |-> palpable_objects[i]]]

Catch_calculate(map, take) ==
    LET palpable_objects == [i \in 1..Len(map) |-> i]
        diff_objects == Catch_create_difficulty_objects(take_n(palpable_objects, take))
    IN  [ objects |-> take_n(palpable_objects, take), diff_objects |-> diff_objects,
          processed |-> diff_objects ]

TaikoCalculate ==
    /\ ob.pc = "args" /\ ob.mode = "taiko_2022"
    /\ ob' = [ob EXCEPT !.pc = "done", !.result = Some(Taiko2022_calculate(ob.map, ob.take))]
    /\ UNCHANGED <<tk, dl, rd, ev, os, ck, pp, cb, hr, fr, cp, bf, vc, co, mc, mu>>

ManiaCalculate ==
    /\ ob.pc = "args" /\ ob.mode = "mania_2022"
    /\ ob' = [ob EXCEPT !.pc = "done", !.result = Some(Mania2022_calculate(ob.map, ob.take))]
    /\ UNCHANGED <<tk, dl, rd, ev, os, ck, pp, cb, hr, fr, cp, bf, vc, co, mc, mu>>

CatchCalculate ==
    /\ ob.pc = "args" /\ ob.mode = "fruits_2022"
    /\ ob' = [ob EXCEPT !.pc = "done", !.result = Some(Catch_calculate(ob.map, ob.take))]
    /\ UNCHANGED <<tk, dl, rd, ev, os, ck, pp, cb, hr, fr, cp, bf, vc, co, mc, mu>>

InitObjects ==
    /\ ob \in { [pc |-> "args", mode |-> mode, map |-> map, take |-> k, result |-> None] :
                  mode \in {"taiko_2022", "mania_2022", "fruits_2022"},
                  map \in UNION { [1..n -> BOOLEAN] : n \in 0..MaxChart },
                  k \in 0..MaxChart }
    /\ tk = Idle /\ dl = Idle /\ rd = Idle /\ ev = Idle /\ os = Idle /\ ck = Idle /\ pp = Idle /\ cb = Idle /\ hr = Idle /\ fr = Idle /\ cp = Idle /\ bf = Idle /\ vc = Idle /\ co = Idle /\ mc = Idle /\ mu = Idle

NextObjects == TaikoCalculate \/ ManiaCalculate \/ CatchCalculate

SpecObjects == InitObjects /\ [][NextObjects]_vars

\* the number of hits among the first n objects of a chart
Hits(map, n) == Cardinality({i \in 1..n : map[i]})

\* the number of objects up to and including the k-th hit, all of them when
\* the chart has fewer than k hits
UpToHit(map, k) ==
    IF Hits(map, Len(map)) < k THEN Len(map)
    ELSE CHOOSE c \in 0..Len(map) :
             /\ Hits(map, c) = k
             /\ \A d \in 0..(c - 1) : Hits(map, d) < k

\* C12: taiko_2022 with passed_objects = k yields max_combo = min(k, hits of
\* the chart) and processes max(0, c - 2) difficulty objects, c being the
\* number of objects up to and including the k-th hit.
C12_TaikoPassedObjects ==
    (ob.pc = "done" /\ ob.mode = "taiko_2022") =>
        /\ unwrap(ob.result).max_combo = Min(ob.take, Hits(ob.map, Len(ob.map)))
        /\ Len(unwrap(ob.result).processed) = Max(0, UpToHit(ob.map, ob.take) - 2)

\* the k-th hit is followed by further objects and at least one difficulty
\* object is processed
C12_Witness ==
    /\ ob.pc = "done" /\ ob.mode = "taiko_2022"
    /\ UpToHit(ob.map, ob.take) < Len(ob.map)
    /\ UpToHit(ob.map, ob.take) > ob.take
    /\ Len(unwrap(ob.result).processed) > 0

(***************************************************************************)
(* generate_state of osu_2022 OsuPP and taiko_2024 TaikoPP                 *)
(*                                                                         *)
(* An accuracy is a whole number of percent; target totals are carried in  *)
(* hundredths, and the distance of two accuracies over the same number of  *)
(* results is compared by cross-multiplication.                            *)
(***************************************************************************)
\* OsuPP::accuracy and TaikoPP::accuracy: the percentage clamped into 0..100
PP_accuracy(calc, acc) == [calc EXCEPT !.acc = Some(Max(0, Min(100, acc)))]

\* (x / d).floor() as u32 and (x / d).ceil() as u32, the cast saturating at 0
floor_u32(x, d) == Max(0, x \div d)
ceil_u32(x, d) == Max(0, CeilDiv(x, d))

map_or(o, default, n) == IF o = None THEN default ELSE Min(unwrap(o), n)
saturating_sub(a, b) == Max(0, a - b)

\* |acc - numerator / denominator| in units of 1 / (100 * denominator);
\* accuracy is 0 for no results
dist_of(acc, numerator, denominator) == Abs(acc * denominator - 100 * numerator)

Osu_dist(acc, n300, n100, n50, misses) ==
    dist_of(acc, 6 * n300 + 2 * n100 + n50, 6 * (n300 + n100 + n50 + misses))

\* the candidate a loop keeps: the first of the closest ones, the loops
\* running upwards over n300 and then over n100
first_closest(cands) ==
    CHOOSE c \in cands : \A d \in cands :
        \/ c.dist < d.dist
        \/ c.dist = d.dist /\ c.n300 < d.n300
        \/ c.dist = d.dist /\ c.n300 = d.n300 /\ c.n100 <= d.n100

Osu_cand(acc, n300, n100, n50, misses) ==
    [n300 |-> n300, n100 |-> n100, n50 |-> n50, dist |-> Osu_dist(acc, n300, n100, n50, misses)]

\* the match on (n300, n100, n50) when an accuracy is given
Osu2022_with_acc(calc, n_objects, misses, given300, given100, given50) ==
    LET acc == unwrap(calc.acc)
        target_total == acc * 6 * n_objects
        n_remaining == n_objects - misses
        has300 == calc.n300 # None
        has100 == calc.n100 # None
        has50 == calc.n50 # None
        hits(a, b, c) == [n300 |-> a, n100 |-> b, n50 |-> c]
    IN  IF has300 /\ has100 /\ has50
        THEN LET remaining == saturating_sub(n_objects, given300 + given100 + given50 + misses)
             IN  IF calc.priority = "BestCase"
                 THEN hits(given300 + remaining, given100, given50)
                 ELSE hits(given300, given100, given50 + remaining)
        ELSE IF has300 /\ has100
        THEN hits(given300, given100, saturating_sub(n_objects, given300 + given100 + misses))
        ELSE IF has300 /\ has50
        THEN hits(given300, saturating_sub(n_objects, given300 + given50 + misses), given50)
        ELSE IF has100 /\ has50
        THEN hits(saturating_sub(n_objects, given100 + given50 + misses), given100, given50)
        ELSE IF has300
        THEN LET rem == n_remaining - given300
                 raw_n100 == target_total - 100 * (rem + 6 * given300)
                 min_n100 == Min(rem, floor_u32(raw_n100, 100))
                 max_n100 == Min(rem, ceil_u32(raw_n100, 100))
                 best == first_closest({ Osu_cand(acc, given300, new100, rem - new100, misses) :
                                           new100 \in min_n100..max_n100 })
             IN  hits(given300, best.n100, best.n50)
        ELSE IF has100
        THEN LET rem == n_remaining - given100
                 raw_n300 == target_total - 100 * (rem + 2 * given100)
                 min_n300 == Min(rem, floor_u32(raw_n300, 500))
                 max_n300 == Min(rem, ceil_u32(raw_n300, 500))
                 best == first_closest({ Osu_cand(acc, new300, given100, rem - new300, misses) :
                                           new300 \in min_n300..max_n300 })
             IN  hits(best.n300, given100, best.n50)
        ELSE IF has50
        THEN LET rem == n_remaining - given50
                 raw_n300 == target_total + 100 * (2 * misses + given50) - 100 * 2 * n_objects
                 min_n300 == Min(rem, floor_u32(raw_n300, 400))
                 max_n300 == Min(rem, ceil_u32(raw_n300, 400))
                 best == first_closest({ Osu_cand(acc, new300, rem - new300, given50, misses) :
                                           new300 \in min_n300..max_n300 })
             IN  hits(best.n300, best.n100, given50)
        ELSE LET raw_n300 == target_total - 100 * n_remaining
                 min_n300 == Min(n_remaining, floor_u32(raw_n300, 500))
                 max_n300 == Min(n_remaining, ceil_u32(raw_n300, 500))
                 raw_n100(new300) == target_total - 100 * (n_remaining + 5 * new300)
                 best == first_closest(UNION {
                             { Osu_cand(acc, new300, new100, n_remaining - new300 - new100, misses) :
                                 new100 \in Min(floor_u32(raw_n100(new300), 100), n_remaining - new300)
                                            ..Min(ceil_u32(raw_n100(new300), 100), n_remaining - new300) } :
                             new300 \in min_n300..max_n300 })
             IN  IF calc.priority = "BestCase"
                 THEN LET n == Min(best.n300, best.n50 \div 4)
                      IN  hits(best.n300 - n, best.n100 + 5 * n, best.n50 - 4 * n)
                 ELSE LET n == best.n100 \div 5
                      IN  hits(best.n300 + n, best.n100 - 5 * n, best.n50 + 4 * n)

\* the remaining results when no accuracy is given
Osu2022_without_acc(calc, n_objects, misses, given300, given100, given50) ==
    LET remaining == saturating_sub(n_objects, given300 + given100 + given50 + misses)
        hits(a, b, c) == [n300 |-> a, n100 |-> b, n50 |-> c]
    IN  IF calc.priority = "BestCase"
        THEN IF calc.n300 = None THEN hits(remaining, given100, given50)
             ELSE IF calc.n100 = None THEN hits(given300, remaining, given50)
             ELSE IF calc.n50 = None THEN hits(given300, given100, remaining)
             ELSE hits(given300 + remaining, given100, given50)
        ELSE IF calc.n50 = None THEN hits(given300, given100, remaining)
             ELSE IF calc.n100 = None THEN hits(given300, remaining, given50)
             ELSE IF calc.n300 = None THEN hits(remaining, given100, given50)
             ELSE hits(given300, given100, given50 + remaining)

\* generate_state with the closest hit results replaced by 300s only
Osu2022_generate_state_all300(calc) ==
    LET misses == map_or(calc.misses, 0, calc.n_objects)
    IN  [ max_combo |-> saturating_sub(calc.max_combo, misses),
          n300 |-> calc.n_objects - misses, n100 |-> 0, n50 |-> 0, misses |-> misses ]

Osu2022_generate_state(calc) ==
    LET n_objects == calc.n_objects
        misses == map_or(calc.misses, 0, n_objects)
        n_remaining == n_objects - misses
        n300 == map_or(calc.n300, 0, n_remaining)
        n100 == map_or(calc.n100, 0, n_remaining)
        n50 == map_or(calc.n50, 0, n_remaining)
        hits == IF calc.acc # None
                THEN Osu2022_with_acc(calc, n_objects, misses, n300, n100, n50)
                ELSE Osu2022_without_acc(calc, n_objects, misses, n300, n100, n50)
        max_possible_combo == saturating_sub(calc.max_combo, misses)
    IN  [ max_combo |-> map_or(calc.combo, max_possible_combo, max_possible_combo),
          n300 |-> hits.n300, n100 |-> hits.n100, n50 |-> hits.n50, misses |-> misses ]

Taiko_dist(acc, n300, n100, misses) ==
    dist_of(acc, 2 * n300 + n100, 2 * (n300 + n100 + misses))

Taiko2024_generate_state(calc) ==
    LET total_result_count == calc.n_objects
        misses == map_or(calc.misses, 0, total_result_count)
        n_remaining == total_result_count - misses
        n300 == map_or(calc.n300, 0, n_remaining)
        n100 == map_or(calc.n100, 0, n_remaining)
        remaining == saturating_sub(total_result_count, n300 + n100 + misses)
        hits(a, b) == [n300 |-> a, n100 |-> b]
        closest ==
            LET acc == unwrap(calc.acc)
                raw_n300 == acc * 2 * total_result_count - 100 * n_remaining
                min_n300 == Min(n_remaining, floor_u32(raw_n300, 100))
                max_n300 == Min(n_remaining, ceil_u32(raw_n300, 100))
            IN  first_closest({ [n300 |-> new300, n100 |-> n_remaining - new300,
                                 dist |-> Taiko_dist(acc, new300, n_remaining - new300, misses)] :
                                  new300 \in min_n300..max_n300 })
        generated ==
            IF calc.acc # None
            THEN IF calc.n300 # None /\ calc.n100 # None
                 THEN IF calc.priority = "WorstCase" THEN hits(n300, n100 + remaining)
                      ELSE hits(n300 + remaining, n100)
                 ELSE IF calc.n300 # None
                 THEN hits(n300, n100 + saturating_sub(total_result_count, n300 + misses))
                 ELSE IF calc.n100 # None
                 THEN hits(n300 + saturating_sub(total_result_count, n100 + misses), n100)
                 ELSE hits(closest.n300, closest.n100)
            ELSE IF calc.priority = "WorstCase"
                 THEN IF calc.n100 = None THEN hits(n300, remaining)
                      ELSE IF calc.n300 = None THEN hits(remaining, n100)
                      ELSE hits(n300, n100 + remaining)
                 ELSE IF calc.n300 = None THEN hits(remaining, n100)
                      ELSE IF calc.n100 = None THEN hits(n300, remaining)
                      ELSE hits(n300 + remaining, n100)
        max_possible_combo == saturating_sub(calc.max_combo, misses)
    IN  [ max_combo |-> map_or(calc.combo, max_possible_combo, max_possible_combo),
          n300 |-> generated.n300, n100 |-> generated.n100, n50 |-> 0, misses |-> misses ]

\* number of objects of the chart
MaxHits == 5

\* a calculator after new(); n_objects = max_combo of the attributes
PP_new(mode, n_objects) ==
    [ mode |-> mode, n_objects |-> n_objects, max_combo |-> n_objects, acc |-> None,
      n300 |-> None, n100 |-> None, n50 |-> None, misses |-> None, combo |-> None,
      priority |-> "BestCase" ]

HitsAccuracy ==
    /\ hr.pc = "new"
    /\ \E acc \in {5 * i : i \in (0 - 1)..21} \cup {1, 17, 33, 67, 99} :
         hr' = [hr EXCEPT !.pc = "set", !.calc = PP_accuracy(@, acc)]
    /\ UNCHANGED <<tk, dl, rd, ev, os, ck, pp, cb, ob, fr, cp, bf, vc, co, mc, mu>>

\* misses, n300, n100, n50, combo and hitresult_priority
HitsSet ==
    /\ hr.pc \in {"new", "set"}
    /\ \E misses \in {None, Some(0), Some(1), Some(2), Some(MaxHits + 1)},
          n300 \in {None, Some(1)}, n100 \in {None, Some(1)}, n50 \in {None, Some(2)},
          combo \in {None, Some(1)}, priority \in {"BestCase", "WorstCase"} :
         hr' = [hr EXCEPT !.pc = "ready",
                          !.calc = [@ EXCEPT !.misses = misses, !.n300 = n300, !.n100 = n100,
                                             !.n50 = IF hr.calc.mode = "osu_2022" THEN n50 ELSE None,
                                             !.combo = combo, !.priority = priority]]
    /\ UNCHANGED <<tk, dl, rd, ev, os, ck, pp, cb, ob, fr, cp, bf, vc, co, mc, mu>>

OsuGenerateState ==
    /\ hr.pc # "done" /\ hr.calc.mode = "osu_2022"
    /\ hr' = [hr EXCEPT !.pc = "done", !.state = Some(Osu2022_generate_state(hr.calc))]
    /\ UNCHANGED <<tk, dl, rd, ev, os, ck, pp, cb, ob, fr, cp, bf, vc, co, mc, mu>>

TaikoGenerateState ==
    /\ hr.pc # "done" /\ hr.calc.mode = "taiko_2024"
    /\ hr' = [hr EXCEPT !.pc = "done", !.state = Some(Taiko2024_generate_state(hr.calc))]
    /\ UNCHANGED <<tk, dl, rd, ev, os, ck, pp, cb, ob, fr, cp, bf, vc, co, mc, mu>>

InitHits ==
    /\ hr \in { [pc |-> "new", calc |-> PP_new(mode, n), state |-> None] :
                  mode \in {"osu_2022", "taiko_2024"}, n \in 0..MaxHits }
    /\ tk = Idle /\ dl = Idle /\ rd = Idle /\ ev = Idle /\ os = Idle /\ ck = Idle /\ pp = Idle /\ cb = Idle /\ ob = Idle /\ fr = Idle /\ cp = Idle /\ bf = Idle /\ vc = Idle /\ co = Idle /\ mc = Idle /\ mu = Idle

NextHits == HitsAccuracy \/ HitsSet \/ OsuGenerateState \/ TaikoGenerateState

SpecHits == InitHits /\ [][NextHits]_vars

\* only an accuracy, and optionally misses, were given
OnlyAccuracy ==
    /\ hr.pc = "done" /\ hr.calc.acc # None
    /\ hr.calc.n300 = None /\ hr.calc.n100 = None /\ hr.calc.n50 = None

\* the distance of a distribution from the requested accuracy
HitsDist(a, b, c) ==
    IF hr.calc.mode = "osu_2022"
    THEN Osu_dist(unwrap(hr.calc.acc), a, b, c, unwrap(hr.state).misses)
    ELSE Taiko_dist(unwrap(hr.calc.acc), a, b, unwrap(hr.state).misses)

\* C13: with only an accuracy (and misses) given, the generated hit results
\* fill the objects left over by the misses, and no other distribution of
\* them over 300/100/50 (300/100 for taiko) is strictly closer to the
\* requested accuracy.
C13_ClosestHitResults ==
    OnlyAccuracy =>
        LET s == unwrap(hr.state)
            left == hr.calc.n_objects - s.misses
        IN  /\ s.n300 + s.n100 + s.n50 = left
            /\ \A a \in 0..left, b \in 0..left :
                 LET c == left - a - b
                 IN  (c >= 0 /\ (hr.calc.mode = "osu_2022" \/ c = 0)) =>
                        HitsDist(a, b, c) >= HitsDist(s.n300, s.n100, s.n50)

\* the closest distribution mixes results and is not exact
C13_Witness ==
    /\ OnlyAccuracy
    /\ unwrap(hr.state).misses > 0
    /\ unwrap(hr.state).n300 > 0 /\ unwrap(hr.state).n100 > 0
    /\ HitsDist(unwrap(hr.state).n300, unwrap(hr.state).n100, unwrap(hr.state).n50) > 0

(***************************************************************************)
(* osu_2024 OsuPP: large_tick_hits, small_tick_hits, slider_end_hits and   *)
(* generate_state                                                          *)
(***************************************************************************)
\* GameMods::no_slider_head_acc: the Classic mod's setting if the mods carry one
no_slider_head_acc(mods, lazer) ==
    IF mods.classic # None THEN unwrap(mods.classic) ELSE ~lazer

get_lazer(calc) == IF calc.lazer = None THEN TRUE ELSE unwrap(calc.lazer)

\* the origin and the slider hits of an osu!lazer score
Osu2024_slider_hits(calc) ==
    LET attrs == calc.attrs
    IN  IF ~no_slider_head_acc(calc.mods, get_lazer(calc))
        THEN [ origin |-> "WithSliderAcc",
               max_large_ticks |-> attrs.n_large_ticks, max_slider_ends |-> attrs.n_sliders,
               max_small_ticks |-> 0,
               slider_end_hits |-> map_or(calc.slider_end_hits, attrs.n_sliders, attrs.n_sliders),
               large_tick_hits |-> map_or(calc.large_tick_hits, attrs.n_large_ticks,
                                          attrs.n_large_ticks),
               small_tick_hits |-> 0 ]
        ELSE [ origin |-> "WithoutSliderAcc",
               max_large_ticks |-> attrs.n_sliders + attrs.n_large_ticks, max_slider_ends |-> 0,
               max_small_ticks |-> attrs.n_sliders,
               slider_end_hits |-> 0,
               large_tick_hits |-> map_or(calc.large_tick_hits,
                                          attrs.n_sliders + attrs.n_large_ticks,
                                          attrs.n_sliders + attrs.n_large_ticks),
               small_tick_hits |-> map_or(calc.small_tick_hits, attrs.n_sliders, attrs.n_sliders) ]

\* the origin of every score taken for an osu!lazer one
Osu2024_origin_by_mods(calc) == Osu2024_slider_hits(calc)

\* (origin, slider_end_hits, large_tick_hits, small_tick_hits) of generate_state
Osu2024_origin(calc) ==
    IF ~get_lazer(calc)
    THEN [ origin |-> "Stable", max_large_ticks |-> 0, max_slider_ends |-> 0,
           max_small_ticks |-> 0, slider_end_hits |-> 0, large_tick_hits |-> 0,
           small_tick_hits |-> 0 ]
    ELSE Osu2024_slider_hits(calc)

\* numerator and denominator of NoComboState::accuracy (0.0 for a denominator of 0)
NoComboState_accuracy(s, o) ==
    LET numerator == 300 * s.n300 + 100 * s.n100 + 50 * s.n50
        denominator == 300 * (s.n300 + s.n100 + s.n50 + s.misses)
    IN  IF o.origin = "Stable"
        THEN [numerator |-> numerator, denominator |-> denominator]
        ELSE IF o.origin = "WithSliderAcc"
        THEN [ numerator |-> numerator + 150 * Min(s.slider_end_hits, o.max_slider_ends)
                                       + 30 * Min(s.large_tick_hits, o.max_large_ticks),
               denominator |-> denominator + 150 * o.max_slider_ends + 30 * o.max_large_ticks ]
        ELSE [ numerator |-> numerator + 30 * Min(s.large_tick_hits, o.max_large_ticks)
                                       + 10 * Min(s.small_tick_hits, o.max_small_ticks),
               denominator |-> denominator + 30 * o.max_large_ticks + 10 * o.max_small_ticks ]

Osu2024_cand(acc, o, n300, n100, n50, misses) ==
    LET a == NoComboState_accuracy(
                 [ n300 |-> n300, n100 |-> n100, n50 |-> n50, misses |-> misses,
                   large_tick_hits |-> o.large_tick_hits, small_tick_hits |-> o.small_tick_hits,
                   slider_end_hits |-> o.slider_end_hits ], o)
    IN  [n300 |-> n300, n100 |-> n100, n50 |-> n50,
         dist |-> dist_of(acc, a.numerator, a.denominator)]

\* the match on (n300, n100, n50) when an accuracy is given
Osu2024_with_acc(calc, o, n_objects, misses, given300, given100, given50) ==
    LET acc == unwrap(calc.acc)
        slider_acc_value ==
            IF o.origin = "WithSliderAcc" THEN 150 * o.slider_end_hits + 30 * o.large_tick_hits
            ELSE IF o.origin = "WithoutSliderAcc"
            THEN 30 * o.large_tick_hits + 10 * o.small_tick_hits
            ELSE 0
        max_slider_acc_value ==
            IF o.origin = "WithSliderAcc" THEN 150 * o.max_slider_ends + 30 * o.max_large_ticks
            ELSE IF o.origin = "WithoutSliderAcc"
            THEN 30 * o.max_large_ticks + 10 * o.max_small_ticks
            ELSE 0
        target_total == acc * (300 * n_objects + max_slider_acc_value)
        n_remaining == n_objects - misses
        has300 == calc.n300 # None
        has100 == calc.n100 # None
        has50 == calc.n50 # None
        hits(a, b, c) == [n300 |-> a, n100 |-> b, n50 |-> c]
    IN  IF has300 /\ has100 /\ has50
        THEN LET remaining == saturating_sub(n_objects, given300 + given100 + given50 + misses)
             IN  IF calc.priority = "WorstCase"
                 THEN hits(given300, given100, given50 + remaining)
                 ELSE hits(given300 + remaining, given100, given50)
        ELSE IF has300 /\ has100
        THEN hits(given300, given100, saturating_sub(n_objects, given300 + given100 + misses))
        ELSE IF has300 /\ has50
        THEN hits(given300, saturating_sub(n_objects, given300 + given50 + misses), given50)
        ELSE IF has100 /\ has50
        THEN hits(saturating_sub(n_objects, given100 + given50 + misses), given100, given50)
        ELSE IF has300
        THEN LET rem == n_remaining - given300
                 raw_n100 == target_total - 100 * (50 * rem + 300 * given300 + slider_acc_value)
                 min_n100 == Min(rem, floor_u32(raw_n100, 5000))
                 max_n100 == Min(rem, ceil_u32(raw_n100, 5000))
                 best == first_closest({ Osu2024_cand(acc, o, given300, new100, rem - new100, misses) :
                                           new100 \in min_n100..max_n100 })
             IN  hits(given300, best.n100, best.n50)
        ELSE IF has100
        THEN LET rem == n_remaining - given100
                 raw_n300 == target_total - 100 * (50 * rem + 100 * given100 + slider_acc_value)
                 min_n300 == Min(rem, floor_u32(raw_n300, 25000))
                 max_n300 == Min(rem, ceil_u32(raw_n300, 25000))
                 best == first_closest({ Osu2024_cand(acc, o, new300, given100, rem - new300, misses) :
                                           new300 \in min_n300..max_n300 })
             IN  hits(best.n300, given100, best.n50)
        ELSE IF has50
        THEN LET rem == n_remaining - given50
                 raw_n300 == target_total + 100 * (100 * misses + 50 * given50)
                               - 100 * (100 * n_objects + slider_acc_value)
                 min_n300 == Min(rem, floor_u32(raw_n300, 20000))
                 max_n300 == Min(rem, ceil_u32(raw_n300, 20000))
                 best == first_closest({ Osu2024_cand(acc, o, new300, rem - new300, given50, misses) :
                                           new300 \in min_n300..max_n300 })
             IN  hits(best.n300, best.n100, given50)
        ELSE LET raw_n300 == target_total - 100 * (50 * n_remaining + slider_acc_value)
                 min_n300 == Min(n_remaining, floor_u32(raw_n300, 25000))
                 max_n300 == Min(n_remaining, ceil_u32(raw_n300, 25000))
                 raw_n100(new300) ==
                     target_total - 100 * (50 * n_remaining + 250 * new300 + slider_acc_value)
                 best == first_closest(UNION {
                             { Osu2024_cand(acc, o, new300, new100,
                                            n_remaining - new300 - new100, misses) :
                                 new100 \in Min(floor_u32(raw_n100(new300), 5000), n_remaining - new300)
                                            ..Min(ceil_u32(raw_n100(new300), 5000), n_remaining - new300) } :
                             new300 \in min_n300..max_n300 })
             IN  IF calc.priority = "WorstCase"
                 THEN LET n == best.n100 \div 5
                      IN  hits(best.n300 + n, best.n100 - 5 * n, best.n50 + 4 * n)
                 ELSE LET n == Min(best.n300, best.n50 \div 4)
                      IN  hits(best.n300 - n, best.n100 + 5 * n, best.n50 - 4 * n)

Osu2024_generate_state(calc) ==
    LET n_objects == calc.attrs.n_objects
        misses == map_or(calc.misses, 0, n_objects)
        n_remaining == n_objects - misses
        n300 == map_or(calc.n300, 0, n_remaining)
        n100 == map_or(calc.n100, 0, n_remaining)
        n50 == map_or(calc.n50, 0, n_remaining)
        o == Osu2024_origin(calc)
        remaining == saturating_sub(n_objects, n300 + n100 + n50 + misses)
        hits(a, b, c) == [n300 |-> a, n100 |-> b, n50 |-> c]
        generated ==
            IF calc.acc # None
            THEN Osu2024_with_acc(calc, o, n_objects, misses, n300, n100, n50)
            ELSE IF calc.priority = "WorstCase"
            THEN IF calc.n50 = None THEN hits(n300, n100, remaining)
                 ELSE IF calc.n100 = None THEN hits(n300, remaining, n50)
                 ELSE IF calc.n300 = None THEN hits(remaining, n100, n50)
                 ELSE hits(n300, n100, n50 + remaining)
            ELSE IF calc.n300 = None THEN hits(remaining, n100, n50)
                 ELSE IF calc.n100 = None THEN hits(n300, remaining, n50)
                 ELSE IF calc.n50 = None THEN hits(n300, n100, remaining)
                 ELSE hits(n300 + remaining, n100, n50)
        max_possible_combo == saturating_sub(calc.attrs.max_combo, misses)
    IN  [ max_combo |-> map_or(calc.combo, max_possible_combo, max_possible_combo),
          large_tick_hits |-> o.large_tick_hits, small_tick_hits |-> o.small_tick_hits,
          slider_end_hits |-> o.slider_end_hits,
          n300 |-> generated.n300, n100 |-> generated.n100, n50 |-> generated.n50,
          misses |-> misses ]

\* a calculator with accuracy, hit results, misses, priority and lazer set,
\* over attributes of n circles and sliders with one large tick per slider
Osu2024_calc(n, sliders, mods, lazer, acc, n300, n50, misses, priority) ==
    [ attrs |-> [n_objects |-> n + sliders, n_sliders |-> sliders, n_large_ticks |-> sliders,
                 max_combo |-> n + 3 * sliders],
      mods |-> mods, lazer |-> lazer, acc |-> acc, n300 |-> n300, n100 |-> None, n50 |-> n50,
      misses |-> misses, combo |-> None, priority |-> priority,
      large_tick_hits |-> None, small_tick_hits |-> None, slider_end_hits |-> None ]

\* calc and plain are two calculators that differ in the three inputs only
LargeTickHits ==
    /\ hr.pc = "new" /\ hr.calc.large_tick_hits = None
    /\ \E n \in {0, 2} : hr' = [hr EXCEPT !.calc.large_tick_hits = Some(n)]
    /\ UNCHANGED <<tk, dl, rd, ev, os, ck, pp, cb, ob, fr, cp, bf, vc, co, mc, mu>>

SmallTickHits ==
    /\ hr.pc = "new" /\ hr.calc.small_tick_hits = None
    /\ \E n \in {0, 2} : hr' = [hr EXCEPT !.calc.small_tick_hits = Some(n)]
    /\ UNCHANGED <<tk, dl, rd, ev, os, ck, pp, cb, ob, fr, cp, bf, vc, co, mc, mu>>

SliderEndHits ==
    /\ hr.pc = "new" /\ hr.calc.slider_end_hits = None
    /\ \E n \in {0, 2} : hr' = [hr EXCEPT !.calc.slider_end_hits = Some(n)]
    /\ UNCHANGED <<tk, dl, rd, ev, os, ck, pp, cb, ob, fr, cp, bf, vc, co, mc, mu>>

Osu2024GenerateState ==
    /\ hr.pc = "new"
    /\ hr' = [hr EXCEPT !.pc = "done",
                        !.state = Some(Osu2024_generate_state(hr.calc)),
                        !.plain_state = Some(Osu2024_generate_state(hr.plain))]
    /\ UNCHANGED <<tk, dl, rd, ev, os, ck, pp, cb, ob, fr, cp, bf, vc, co, mc, mu>>

InitTicks ==
    /\ hr \in { [ pc |-> "new", state |-> None, plain_state |-> None,
                  calc |-> Osu2024_calc(n, sl, [classic |-> cl], lz, acc, n300, n50, ms, pr),
                  plain |-> Osu2024_calc(n, sl, [classic |-> cl], lz, acc, n300, n50, ms, pr) ] :
                  n \in {0, 3}, sl \in 0..1, cl \in {None, Some(TRUE), Some(FALSE)},
                  lz \in {None, Some(TRUE), Some(FALSE)}, acc \in {None, Some(50), Some(80)},
                  n300 \in {None, Some(1)}, n50 \in {None, Some(1)}, ms \in {None, Some(1)},
                  pr \in {"BestCase", "WorstCase"} }
    /\ tk = Idle /\ dl = Idle /\ rd = Idle /\ ev = Idle /\ os = Idle /\ ck = Idle /\ pp = Idle /\ cb = Idle /\ ob = Idle /\ fr = Idle /\ cp = Idle /\ bf = Idle /\ vc = Idle /\ co = Idle /\ mc = Idle /\ mu = Idle

NextTicks == LargeTickHits \/ SmallTickHits \/ SliderEndHits \/ Osu2024GenerateState

SpecTicks == InitTicks /\ [][NextTicks]_vars

\* C14: for an osu!stable score the three slider inputs are irrelevant: the
\* generated n300, n100, n50, misses, max_combo and accuracy are those of the
\* calculator without them, and the state reports all three as 0.
C14_StableIgnoresSliderHits ==
    (hr.pc = "done" /\ hr.calc.lazer = Some(FALSE)) =>
        LET s == unwrap(hr.state)
            p == unwrap(hr.plain_state)
        IN  /\ s = p
            /\ NoComboState_accuracy(s, Osu2024_origin(hr.calc))
                 = NoComboState_accuracy(p, Osu2024_origin(hr.plain))
            /\ s.large_tick_hits = 0 /\ s.small_tick_hits = 0 /\ s.slider_end_hits = 0

\* a stable score on a chart with a slider, all three inputs given, results
\* generated from an accuracy
C14_Witness ==
    /\ hr.pc = "done" /\ hr.calc.lazer = Some(FALSE)
    /\ hr.calc.attrs.n_sliders > 0 /\ hr.calc.acc # None
    /\ hr.calc.large_tick_hits = Some(0) /\ hr.calc.small_tick_hits = Some(0)
    /\ hr.calc.slider_end_hits = Some(0)
    /\ unwrap(hr.state).n300 > 0 /\ unwrap(hr.state).n100 > 0

\* the peak list as the weighted reduction iterates it
IteratedPeaks ==
    IF rd.mode = "strains_vec" THEN StrainsVec_non_zero_iter(rd.skill)
    ELSE rd.skill.strain_peaks

\* how often a value occurs in a sequence
Occurrences(seq, x) == Cardinality({i \in 1..Len(seq) : seq[i] = x})

C16_FinalSaveBeforeReduce ==
    [][ (os.pc \in {"loop", "rate"} /\ os'.pc = "done") =>
            /\ os.pc = "rate"
            /\ Len(os.aim.strain_peaks) > 0
            /\ os.aim.strain_peaks[Len(os.aim.strain_peaks)] = os.aim.current_section_peak
            /\ Len(os.speed.strain_peaks) > 0
            /\ os.speed.strain_peaks[Len(os.speed.strain_peaks)] = os.speed.current_section_peak
      ]_vars

\* C17: a section rollover of taiko_ppv1 starts the new section from
\* current_strain * decay_base^((boundary - t_last) / 1000), t_last being the
\* start time of the last processed object, and leaves current_strain and the
\* saved peaks as they are.
C17_CarryOverFromLastTime ==
    [][ (tk.pc = "loop" /\ tk'.pc = "loop" /\ tk'.current_section_end # tk.current_section_end) =>
            /\ tk'.strain.current_section_peak =
                 MulFP(tk.strain.current_strain,
                       Taiko_strain_decay((tk.current_section_end
                                             - tk.map[tk.idx - 1].start_time) * DS))
            /\ tk'.strain.current_strain = tk.strain.current_strain
            /\ tk'.strain.strain_peaks =
                 Append(tk.strain.strain_peaks, tk.strain.current_section_peak)
      ]_vars

\* C18: in every osu revision the first section boundary is the first
\* object's time rounded up to a multiple of the section length, every later
\* boundary is the one before plus the section length, and an object is
\* processed at a time t with b - L < t <= b for the boundary b (t <= b in the
\* first section).
C18_SectionBoundaries ==
    [][ /\ (os.pc = "call" /\ os'.pc = "first") =>
               os'.current_section_end =
                   CeilDiv(os'.objects[1].time, os'.section_len) * os'.section_len
        /\ (os.pc \in {"first", "loop"} /\ os'.current_section_end # os.current_section_end) =>
               os'.current_section_end = os.current_section_end + os.section_len
        /\ (os.pc \in {"first", "loop"} /\ os'.idx = os.idx + 1) =>
               /\ os.objects[os.idx].time <= os.current_section_end
               /\ \/ os.current_section_end - os.section_len < os.objects[os.idx].time
                  \/ os.current_section_end =
                         CeilDiv(os.objects[1].time, os.section_len) * os.section_len
      ]_vars

\* the objects handed to create_difficulty_objects: the truncated objects of
\* mania_2022 and fruits_2022, every object of the chart in taiko_2022
BuilderInput ==
    IF ob.mode = "taiko_2022" THEN [i \in 1..Len(ob.map) |-> i]
    ELSE unwrap(ob.result).objects

\* one difficulty object for each object after the first `skipped` ones, the
\* k-th built from object k + skipped with the object before it as predecessor
BuiltAfter(skipped) ==
    LET input == BuilderInput
        d == unwrap(ob.result).diff_objects
    IN  /\ Len(d) = Max(0, Len(input) - skipped)
        /\ \A k \in 1..Len(d) :
              /\ d[k].idx = k - 1
              /\ d[k].base = input[k + skipped]
              /\ d[k].last = input[k + skipped - 1]

\* C19 as stated: every builder returns max(0, n - 1) difficulty objects for
\* n objects, the k-th (0-based) built from object k + 1 with object k as its
\* predecessor.
C19_OnePerObjectAfterFirst == ob.pc = "done" => BuiltAfter(1)

\* C19: the builders of mania_2022 and fruits_2022 return max(0, n - 1)
\* difficulty objects for n objects, the k-th (0-based, index k) built from
\* object k + 1 with object k as its predecessor; the builder of taiko_2022
\* returns max(0, n - 2), the k-th built from object k + 2 with objects k + 1
\* and k as its two predecessors.
C19_DifficultyObjectsByMode ==
    ob.pc = "done" =>
        IF ob.mode = "taiko_2022"
        THEN /\ BuiltAfter(2)
             /\ \A k \in 1..Len(unwrap(ob.result).diff_objects) :
                   unwrap(ob.result).diff_objects[k].last_last = BuilderInput[k]
        ELSE BuiltAfter(1)

C19_Witness ==
    /\ ob.pc = "done" /\ ob.mode = "taiko_2022"
    /\ Len(ob.map) = MaxChart
    /\ Len(unwrap(ob.result).diff_objects) = MaxChart - 2

\* ---------------------------------------------------------------------------
\* fruits_ppv1::stars: the objects of a chart in the order Movement gets them.
\* Times are whole ms; a slider carries its curve's length and tick distance in
\* pixels and its velocity in pixels per 10 ms.

MaxFruits == 3

Reverse(seq) == [i \in 1..Len(seq) |-> seq[Len(seq) + 1 - i]]

\* the reverse and the ticks of the spans span_idx..repeats
RECURSIVE Catch_other_spans(_, _, _, _, _, _)
Catch_other_spans(ticks, start_time, span_duration, time_add, span_idx, repeats) ==
    IF span_idx > repeats THEN <<>>
    ELSE LET time_offset == span_duration * span_idx
             new_ticks == [i \in 1..Len(ticks) |->
                              ticks[i] + time_offset + time_add * (i - 1)]
         IN  <<start_time + time_offset>>
             \o (IF span_idx % 2 = 1 THEN Reverse(new_ticks) ELSE new_ticks)
             \o Catch_other_spans(ticks, start_time, span_duration, time_add,
                                  span_idx + 1, repeats)

\* the times of the objects one hit object turns into
Catch_ppv1_objects(h) ==
    IF h.kind = "circle" THEN <<h.start_time>>
    ELSE IF h.kind = "slider"
    THEN LET span_count == h.repeats + 1
             duration == (span_count * h.dist * 10) \div h.velocity
             span_duration == duration \div span_count
             len == Min(h.dist, 100000)
             tick_dist == Min(h.tick_dist, len)
             min_dist_from_end == h.velocity
             time_add == (duration * tick_dist) \div (h.dist * span_count)
             n_ticks == IF len - min_dist_from_end <= tick_dist THEN 0
                        ELSE (len - min_dist_from_end - 1) \div tick_dist
             ticks == [k \in 1..n_ticks |->
                          h.start_time + (k * tick_dist * span_duration) \div len]
         IN  <<h.start_time>> \o ticks
             \o (IF h.repeats = 0 THEN <<>>
                 ELSE Catch_other_spans(ticks, h.start_time, span_duration, time_add,
                                        1, h.repeats))
             \o <<h.start_time + duration>>
    ELSE <<>>

\* filter_map and flatten over the first n hit objects
RECURSIVE Catch_ppv1_hit_objects(_, _)
Catch_ppv1_hit_objects(map, n) ==
    IF n = 0 THEN <<>>
    ELSE Catch_ppv1_hit_objects(map, n - 1) \o Catch_ppv1_objects(map[n])

\* stars up to the first object Movement processes
FruitsBegin ==
    /\ fr.pc = "call"
    /\ LET hit_objects == Catch_ppv1_hit_objects(fr.map, Len(fr.map))
       IN  IF Len(fr.map) < 2
           THEN fr' = [fr EXCEPT !.pc = "done"]
           ELSE IF Len(hit_objects) < 3
           THEN fr' = [fr EXCEPT !.pc = "panic", !.hit_objects = hit_objects]
           ELSE fr' = [fr EXCEPT !.pc = "loop",
                                 !.hit_objects = hit_objects,
                                 !.fed = <<hit_objects[2]>>,
                                 !.curr = 3]
    /\ UNCHANGED <<tk, dl, rd, ev, os, ck, pp, cb, ob, hr, cp, bf, vc, co, mc, mu>>

\* one turn of the loop over the other objects
FruitsProcess ==
    /\ fr.pc = "loop"
    /\ fr.curr < Len(fr.hit_objects)
    /\ fr' = [fr EXCEPT !.fed = Append(@, fr.hit_objects[fr.curr]),
                        !.curr = @ + 1]
    /\ UNCHANGED <<tk, dl, rd, ev, os, ck, pp, cb, ob, hr, cp, bf, vc, co, mc, mu>>

\* the last object, after the loop
FruitsProcessLast ==
    /\ fr.pc = "loop"
    /\ fr.curr = Len(fr.hit_objects)
    /\ fr' = [fr EXCEPT !.fed = Append(@, fr.hit_objects[fr.curr]),
                        !.pc = "done"]
    /\ UNCHANGED <<tk, dl, rd, ev, os, ck, pp, cb, ob, hr, cp, bf, vc, co, mc, mu>>

FruitKinds ==
    {[kind |-> "circle"], [kind |-> "spinner"]}
    \cup { [kind |-> "slider", dist |-> d, tick_dist |-> 100, velocity |-> 5, repeats |-> r] :
             d \in {100, 200, 300}, r \in {0, 1} }

\* the charts of n hit objects sorted by start time, the first at 0 ms
RECURSIVE FruitChartsOfLen(_)
FruitChartsOfLen(n) ==
    IF n = 0 THEN {<<>>}
    ELSE UNION { { Append(c, k @@ [start_time |-> t]) :
                     k \in FruitKinds,
                     t \in (IF n = 1 THEN {0}
                            ELSE { c[n - 1].start_time + g : g \in {0, 300} }) } :
                 c \in FruitChartsOfLen(n - 1) }

InitFruits ==
    /\ fr \in { [pc |-> "call", map |-> map, hit_objects |-> <<>>, fed |-> <<>>, curr |-> 0] :
                  map \in UNION { FruitChartsOfLen(n) : n \in 0..MaxFruits } }
    /\ tk = Idle /\ dl = Idle /\ rd = Idle /\ ev = Idle /\ os = Idle /\ ck = Idle /\ pp = Idle /\ cb = Idle /\ ob = Idle /\ hr = Idle /\ cp = Idle /\ bf = Idle /\ vc = Idle /\ co = Idle /\ mc = Idle /\ mu = Idle

NextFruits == FruitsBegin \/ FruitsProcess \/ FruitsProcessLast

SpecFruits == InitFruits /\ [][NextFruits]_vars

\* C20: the objects Movement is fed are in the order of their times, each one
\* no earlier than the one before it.
C20_FedInTimeOrder ==
    \A i, j \in 1..Len(fr.fed) : i < j => fr.fed[i] <= fr.fed[j]

\* ---------------------------------------------------------------------------
\* util::control_points: the timing point and the difficulty point at a time.
\* A point is [time, value], value being its beat_len or its slider_velocity.

DEFAULT_BEAT_LEN == 1000
DEFAULT_SLIDER_VELOCITY == 1

\* slice::binary_search_by on times in increasing order: Ok(i) of the point at
\* `time`, or Err(i) of the place where it would be inserted (0-based)
binary_search_by(points, time) ==
    IF \E i \in 1..Len(points) : points[i].time = time
    THEN [ok |-> TRUE, i |-> (CHOOSE i \in 1..Len(points) : points[i].time = time) - 1]
    ELSE [ok |-> FALSE, i |-> Cardinality({ i \in 1..Len(points) : points[i].time < time })]

\* slice::get with a 0-based index
get(points, i) == IF i < Len(points) THEN Some(points[i + 1]) ELSE None

\* timing_point_at with the index always one before the place of insertion
timing_point_before(points, time) ==
    LET found == binary_search_by(points, time)
    IN  IF found.ok THEN get(points, found.i)
        ELSE IF found.i = 0 THEN None ELSE get(points, found.i - 1)

timing_point_at(points, time) ==
    LET found == binary_search_by(points, time)
        i == IF found.ok THEN found.i ELSE Max(found.i - 1, 0)
    IN  get(points, i)

\* difficulty_point_at keeping the place of insertion
difficulty_point_after(points, time) ==
    LET found == binary_search_by(points, time)
    IN  get(points, found.i)

difficulty_point_at(points, time) ==
    LET found == binary_search_by(points, time)
        i == IF found.ok THEN Some(found.i)
             ELSE IF found.i = 0 THEN None ELSE Some(found.i - 1)
    IN  IF i = None THEN None ELSE Some(points[unwrap(i) + 1])

\* the beat length and the slider velocity a slider is converted with
beat_len_at(points, time) ==
    LET point == timing_point_at(points, time)
    IN  IF point = None THEN DEFAULT_BEAT_LEN ELSE unwrap(point).value

slider_velocity_at(points, time) ==
    LET point == difficulty_point_at(points, time)
    IN  IF point = None THEN DEFAULT_SLIDER_VELOCITY ELSE unwrap(point).value

TimingPointAt ==
    /\ cp.pc = "args" /\ cp.kind = "timing"
    /\ cp' = [cp EXCEPT !.pc = "done",
                        !.point = Some(timing_point_at(cp.points, cp.time)),
                        !.value = Some(beat_len_at(cp.points, cp.time))]
    /\ UNCHANGED <<tk, dl, rd, ev, os, ck, pp, cb, ob, hr, fr, bf, vc, co, mc, mu>>

DifficultyPointAt ==
    /\ cp.pc = "args" /\ cp.kind = "difficulty"
    /\ cp' = [cp EXCEPT !.pc = "done",
                        !.point = Some(difficulty_point_at(cp.points, cp.time)),
                        !.value = Some(slider_velocity_at(cp.points, cp.time))]
    /\ UNCHANGED <<tk, dl, rd, ev, os, ck, pp, cb, ob, hr, fr, bf, vc, co, mc, mu>>

MaxPoints == 3

\* the lists of at most n points with strictly increasing times
RECURSIVE PointLists(_)
PointLists(n) ==
    IF n = 0 THEN {<<>>}
    ELSE PointLists(n - 1)
         \cup UNION { { Append(l, [time |-> t, value |-> v]) :
                          t \in { u \in {100, 200, 300, 400} :
                                    Len(l) = 0 \/ u > l[Len(l)].time },
                          v \in {2, 3} } :
                      l \in { m \in PointLists(n - 1) : Len(m) = n - 1 } }

InitPoints ==
    /\ cp \in { [pc |-> "args", kind |-> k, points |-> l, time |-> t,
                 point |-> None, value |-> None] :
                  k \in {"timing", "difficulty"}, l \in PointLists(MaxPoints),
                  t \in {0, 50, 100, 150, 200, 250, 300, 350, 400, 450} }
    /\ tk = Idle /\ dl = Idle /\ rd = Idle /\ ev = Idle /\ os = Idle /\ ck = Idle /\ pp = Idle /\ cb = Idle /\ ob = Idle /\ hr = Idle /\ fr = Idle /\ bf = Idle /\ vc = Idle /\ co = Idle /\ mc = Idle /\ mu = Idle

NextPoints == TimingPointAt \/ DifficultyPointAt

SpecPoints == InitPoints /\ [][NextPoints]_vars

\* the points at or before the time
PointsUpTo == { i \in 1..Len(cp.points) : cp.points[i].time <= cp.time }

\* the last point at or before the time, if there is one
LastPointUpTo ==
    IF PointsUpTo = {} THEN None
    ELSE Some(cp.points[CHOOSE i \in PointsUpTo : \A j \in PointsUpTo : j <= i])

\* C21: difficulty_point_at returns the last point whose time is <= T, and
\* None, so that the default slider velocity is used, when there is no such
\* point.
C21_LastDifficultyPoint ==
    (cp.pc = "done" /\ cp.kind = "difficulty") =>
        /\ unwrap(cp.point) = LastPointUpTo
        /\ LastPointUpTo = None => unwrap(cp.value) = DEFAULT_SLIDER_VELOCITY
        /\ LastPointUpTo # None => unwrap(cp.value) = unwrap(LastPointUpTo).value

\* a time between two points, and a time before every point
C21_Witness ==
    /\ cp.pc = "done" /\ cp.kind = "difficulty"
    /\ Len(cp.points) = MaxPoints
    /\ cp.time = 250
    /\ unwrap(cp.point) # None /\ unwrap(unwrap(cp.point)).time = 200

\* C22 as stated: the beat length is that of the last timing point whose time
\* is <= T, and the default beat length when there is no such point.
C22_LastTimingPointOrDefault ==
    (cp.pc = "done" /\ cp.kind = "timing") =>
        unwrap(cp.value) = IF LastPointUpTo = None THEN DEFAULT_BEAT_LEN
                           ELSE unwrap(LastPointUpTo).value

\* C22: the beat length is that of the last timing point whose time is <= T;
\* for a T before the first timing point it is that of the first timing point,
\* and it is the default beat length only for the empty list.
C22_LastTimingPointOrFirst ==
    (cp.pc = "done" /\ cp.kind = "timing") =>
        unwrap(cp.value) = IF LastPointUpTo # None THEN unwrap(LastPointUpTo).value
                           ELSE IF Len(cp.points) > 0 THEN cp.points[1].value
                           ELSE DEFAULT_BEAT_LEN

\* a time before the first of several timing points
C22_Witness ==
    /\ cp.pc = "done" /\ cp.kind = "timing"
    /\ Len(cp.points) = MaxPoints
    /\ cp.time < cp.points[1].time
    /\ unwrap(cp.value) = cp.points[1].value

\* ---------------------------------------------------------------------------
\* fruits_ppv1::stars: the tick buffer and the curve's vertex buffer, shared by
\* the sliders of a chart.  A slider carries the x coordinates of its control
\* points, joined by straight lines, and its expected length is theirs.

\* the length of the path over the vertices
RECURSIVE Curve_calculate_length(_, _)
Curve_calculate_length(path, n) ==
    IF n <= 1 THEN 0
    ELSE Curve_calculate_length(path, n - 1) + Abs(path[n] - path[n - 1])

\* calculate_path adding the control points to what the buffer holds
Curve_calculate_path_unclear(points, bufs) ==
    IF Len(points) = 0 THEN [path |-> <<>>, vertices |-> bufs.vertices]
    ELSE LET vertices == bufs.vertices \o points
         IN  [path |-> vertices, vertices |-> vertices]

\* the path of the control points and the vertex buffer left behind
Curve_calculate_path(points, bufs) ==
    IF Len(points) = 0 THEN [path |-> <<>>, vertices |-> bufs.vertices]
    ELSE LET vertices == points
         IN  [path |-> vertices, vertices |-> vertices]

\* the times of a slider's objects and the buffers it leaves behind
Catch_ppv1_slider(h, bufs) ==
    LET curve == Curve_calculate_path(h.control_points, bufs)
        dist == Curve_calculate_length(curve.path, Len(curve.path))
        span_count == h.repeats + 1
        duration == (span_count * dist * 10) \div h.velocity
        span_duration == duration \div span_count
        len == Min(dist, 100000)
        tick_dist == Min(h.tick_dist, len)
        min_dist_from_end == h.velocity
        time_add == (duration * tick_dist) \div (h.expected_dist * span_count)
        n_ticks == IF len - min_dist_from_end <= tick_dist THEN 0
                   ELSE (len - min_dist_from_end - 1) \div tick_dist
        ticks == bufs.ticks
                 \o [k \in 1..n_ticks |->
                        h.start_time + (k * tick_dist * span_duration) \div len]
    IN  [ objects |->
              <<h.start_time>> \o ticks
              \o (IF h.repeats = 0 THEN <<>>
                  ELSE Catch_other_spans(ticks, h.start_time, span_duration, time_add,
                                         1, h.repeats))
              \o <<h.start_time + duration>>,
          ticks |-> <<>>,
          vertices |-> curve.vertices ]

\* one hit object through the closure of filter_map
FruitsConvert ==
    /\ bf.pc = "convert"
    /\ bf.idx <= Len(bf.map)
    /\ LET h == bf.map[bf.idx]
       IN  IF h.kind = "slider"
           THEN LET made == Catch_ppv1_slider(h, bf)
                IN  bf' = [bf EXCEPT !.idx = @ + 1,
                                     !.ticks_before = bf.ticks,
                                     !.objects = made.objects,
                                     !.ticks = made.ticks,
                                     !.vertices = made.vertices]
           ELSE bf' = [bf EXCEPT !.idx = @ + 1,
                                 !.ticks_before = bf.ticks,
                                 !.objects = IF h.kind = "circle" THEN <<h.start_time>>
                                             ELSE <<>>]
    /\ UNCHANGED <<tk, dl, rd, ev, os, ck, pp, cb, ob, hr, fr, cp, vc, co, mc, mu>>

\* the iterator is exhausted
FruitsConverted ==
    /\ bf.pc = "convert"
    /\ bf.idx > Len(bf.map)
    /\ bf' = [bf EXCEPT !.pc = "done"]
    /\ UNCHANGED <<tk, dl, rd, ev, os, ck, pp, cb, ob, hr, fr, cp, vc, co, mc, mu>>

MaxSliders == 3

SliderKinds ==
    {[kind |-> "circle"], [kind |-> "spinner"]}
    \cup { [kind |-> "slider", control_points |-> p,
            expected_dist |-> Curve_calculate_length(p, Len(p)),
            tick_dist |-> 100, velocity |-> 5, repeats |-> r] :
             p \in {<<0, 100>>, <<0, 300>>, <<0, 200, 100>>}, r \in {0, 1} }

InitBuffers ==
    /\ bf \in UNION { { [pc |-> "convert",
                         map |-> [i \in 1..n |-> kinds[i] @@ [start_time |-> 1000 * (i - 1)]],
                         idx |-> 1, ticks |-> <<>>, vertices |-> <<>>,
                         ticks_before |-> <<>>, objects |-> <<>>] :
                          kinds \in [1..n -> SliderKinds] } : n \in 0..MaxSliders }
    /\ tk = Idle /\ dl = Idle /\ rd = Idle /\ ev = Idle /\ os = Idle /\ ck = Idle /\ pp = Idle /\ cb = Idle /\ ob = Idle /\ hr = Idle /\ fr = Idle /\ cp = Idle /\ vc = Idle /\ co = Idle /\ mc = Idle /\ mu = Idle

NextBuffers == FruitsConvert \/ FruitsConverted

SpecBuffers == InitBuffers /\ [][NextBuffers]_vars

FreshBuffers == [ticks |-> <<>>, vertices |-> <<>>]

MaxStrains == 4

StrainsEntry_is_zero(entry) == entry.value = 0

StrainsVec_len(v) == v.len

RECURSIVE StrainsVec_sum_of(_, _)
StrainsVec_sum_of(inner, n) ==
    IF n = 0 THEN 0
    ELSE StrainsVec_sum_of(inner, n - 1)
         + (IF StrainsEntry_is_zero(inner[n]) THEN 0 ELSE inner[n].value)

StrainsVec_sum(v) == StrainsVec_sum_of(v.inner, Len(v.inner))

\* the values up to each entry of zeros, then as many 0.0 as it counts
RECURSIVE StrainsVec_copy_non_zero(_, _)
StrainsVec_copy_non_zero(inner, n) ==
    IF n = 0 THEN <<>>
    ELSE StrainsVec_copy_non_zero(inner, n - 1)
         \o (IF StrainsEntry_is_zero(inner[n])
             THEN [i \in 1..inner[n].zero_count |-> 0]
             ELSE <<inner[n].value>>)

\* into_vec with one 0.0 for each entry of zeros
StrainsVec_into_vec_entries(v) == [i \in 1..Len(v.inner) |-> v.inner[i].value]

StrainsVec_into_vec(v) == StrainsVec_copy_non_zero(v.inner, Len(v.inner))

StrainsIter_new(v) ==
    [ inner |-> IF Len(v.inner) = 0 THEN <<>> ELSE Tail(v.inner),
      curr |-> IF Len(v.inner) = 0 THEN None ELSE Some(v.inner[1]),
      len |-> v.len ]

\* inner.next() into curr
StrainsIter_advance(it) ==
    [it EXCEPT !.curr = IF Len(it.inner) = 0 THEN None ELSE Some(it.inner[1]),
               !.inner = IF Len(it.inner) = 0 THEN <<>> ELSE Tail(it.inner)]

\* next: the item and the iterator after it
RECURSIVE StrainsIter_next(_)
StrainsIter_next(it) ==
    IF it.curr = None THEN [item |-> None, it |-> it]
    ELSE LET curr == unwrap(it.curr)
         IN  IF ~StrainsEntry_is_zero(curr)
             THEN [item |-> Some(curr.value),
                   it |-> [StrainsIter_advance(it) EXCEPT !.len = @ - 1]]
             ELSE IF curr.zero_count > 0
             THEN [item |-> Some(0),
                   it |-> [it EXCEPT !.curr = Some([curr EXCEPT !.zero_count = @ - 1]),
                                     !.len = @ - 1]]
             ELSE StrainsIter_next(StrainsIter_advance(it))

SvPush ==
    /\ vc.pc = "vec"
    /\ Len(vc.pushed) < MaxStrains
    /\ \E value \in {0 - 500, 0, 500, 1000} :
         vc' = [vc EXCEPT !.vec = StrainsVec_push(@, value), !.pushed = Append(@, value)]
    /\ UNCHANGED <<tk, dl, rd, ev, os, ck, pp, cb, ob, hr, fr, cp, bf, co, mc, mu>>

SvRetainNonZero ==
    /\ vc.pc = "vec"
    /\ vc' = [vc EXCEPT !.vec = StrainsVec_retain_non_zero(@), !.only_pushed = FALSE]
    /\ UNCHANGED <<tk, dl, rd, ev, os, ck, pp, cb, ob, hr, fr, cp, bf, co, mc, mu>>

\* sort_desc, called as its debug assertion asks: on a vector without zeros
SvSortDesc ==
    /\ vc.pc = "vec"
    /\ \A i \in 1..Len(vc.vec.inner) : ~StrainsEntry_is_zero(vc.vec.inner[i])
    /\ vc' = [vc EXCEPT !.vec = StrainsVec_sort_desc(@), !.only_pushed = FALSE]
    /\ UNCHANGED <<tk, dl, rd, ev, os, ck, pp, cb, ob, hr, fr, cp, bf, co, mc, mu>>

SvIter ==
    /\ vc.pc = "vec"
    /\ vc' = [vc EXCEPT !.pc = "iter", !.it = StrainsIter_new(vc.vec), !.yielded = <<>>]
    /\ UNCHANGED <<tk, dl, rd, ev, os, ck, pp, cb, ob, hr, fr, cp, bf, co, mc, mu>>

SvNext ==
    /\ vc.pc = "iter"
    /\ LET got == StrainsIter_next(vc.it)
       IN  vc' = [vc EXCEPT !.it = got.it,
                            !.yielded = IF got.item = None THEN @ ELSE Append(@, unwrap(got.item)),
                            !.pc = IF got.item = None THEN "exhausted" ELSE "iter"]
    /\ UNCHANGED <<tk, dl, rd, ev, os, ck, pp, cb, ob, hr, fr, cp, bf, co, mc, mu>>

SvIntoVec ==
    /\ vc.pc = "vec"
    /\ vc' = [vc EXCEPT !.pc = "into_vec",
                        !.sum = StrainsVec_sum(vc.vec),
                        !.yielded = StrainsVec_into_vec(vc.vec)]
    /\ UNCHANGED <<tk, dl, rd, ev, os, ck, pp, cb, ob, hr, fr, cp, bf, co, mc, mu>>

InitStrains ==
    /\ vc = [pc |-> "vec", vec |-> StrainsVec_with_capacity, pushed |-> <<>>,
             only_pushed |-> TRUE, it |-> StrainsIter_new(StrainsVec_with_capacity),
             yielded |-> <<>>, sum |-> 0]
    /\ tk = Idle /\ dl = Idle /\ rd = Idle /\ ev = Idle /\ os = Idle /\ ck = Idle /\ pp = Idle /\ cb = Idle /\ ob = Idle /\ hr = Idle /\ fr = Idle /\ cp = Idle /\ bf = Idle /\ co = Idle /\ mc = Idle /\ mu = Idle

NextStrains == SvPush \/ SvRetainNonZero \/ SvSortDesc \/ SvIter \/ SvNext \/ SvIntoVec

SpecStrains == InitStrains /\ [][NextStrains]_vars

\* the pushed values as a Vec<f64> of non-negative values holds them
PushedNonNegative == [i \in 1..Len(vc.pushed) |-> Max(vc.pushed[i], 0)]

RECURSIVE SumOf(_, _)
SumOf(seq, n) == IF n = 0 THEN 0 ELSE SumOf(seq, n - 1) + seq[n]

\* C24: for a vector that was only pushed to, iter() and into_vec() yield in
\* push order each positive value unchanged and each zero or negative value as
\* 0, consecutive zeros being one counted entry, and sum() is the sum of that
\* sequence.
C24_LikeVecOfNonNegative ==
    vc.only_pushed =>
        /\ vc.pc \in {"exhausted", "into_vec"} => vc.yielded = PushedNonNegative
        /\ vc.pc = "into_vec" => vc.sum = SumOf(PushedNonNegative, Len(vc.pushed))
        /\ \A i \in 1..(Len(vc.vec.inner) - 1) :
              ~(StrainsEntry_is_zero(vc.vec.inner[i]) /\ StrainsEntry_is_zero(vc.vec.inner[i + 1]))

\* a value, two zeros (one of them pushed as a negative value) and a value
C24_Witness ==
    /\ vc.only_pushed /\ vc.pc = "exhausted"
    /\ vc.pushed = <<500, 0 - 500, 0, 1000>>
    /\ Len(vc.vec.inner) = 3

\* C25: len() is the number of items iter() yields, and the length of the
\* iterator goes down by one with each item and is 0 exactly when next() has
\* nothing more to yield.
C25_LenIsItemCount ==
    vc.pc \in {"iter", "exhausted"} =>
        /\ vc.it.len = StrainsVec_len(vc.vec) - Len(vc.yielded)
        /\ vc.it.len = 0 <=> StrainsIter_next(vc.it).item = None

\* C26: the generated state of osu_2022 and taiko_2024 has misses <= n_objects
\* and hit results that sum to exactly n_objects, whatever hit counts, misses,
\* accuracy and priority were given.
C26_HitResultsSumToObjects ==
    hr.pc = "done" =>
        LET s == unwrap(hr.state)
        IN  /\ s.misses <= hr.calc.n_objects
            /\ s.n300 + s.n100 + s.n50 + s.misses = hr.calc.n_objects

\* ---------------------------------------------------------------------------
\* taiko_ppv1 Strain: the colour state over a sequence of processed objects

MaxColor == 5

\* the next hit object of the chart is processed
ColorProcess ==
    /\ co.pc = "strain"
    /\ co.n < MaxColor
    /\ \E k \in TaikoKinds, gap \in {200, 1000} :
         LET base == HitObject(co.prev.start_time + gap, k)
             current == Taiko_DifficultyObject_new(base, co.prev, Mods_clock_rate(NoMod))
         IN  co' = [co EXCEPT !.prev = base,
                              !.n = @ + 1,
                              !.current = Some(current),
                              !.before = Some(co.skill),
                              !.value = Some(Taiko_strain_value_of(co.skill, current).value),
                              !.skill = Taiko_process(@, current)]
    /\ UNCHANGED <<tk, dl, rd, ev, os, ck, pp, cb, ob, hr, fr, cp, bf, vc, mc, mu>>

InitColor ==
    /\ co \in { [pc |-> "strain", prev |-> HitObject(0, k), n |-> 0, skill |-> Taiko_Strain_new,
                 current |-> None, before |-> None, value |-> None] : k \in TaikoKinds }
    /\ tk = Idle /\ dl = Idle /\ rd = Idle /\ ev = Idle /\ os = Idle /\ ck = Idle /\ pp = Idle /\ cb = Idle /\ ob = Idle /\ hr = Idle /\ fr = Idle /\ cp = Idle /\ bf = Idle /\ vc = Idle /\ mc = Idle /\ mu = Idle

NextColor == ColorProcess

SpecColor == InitColor /\ [][NextColor]_vars

\* the last object is a circle following a circle within less than 1000 ms
ColorPattern ==
    /\ is_circle(unwrap(co.current).base) /\ is_circle(unwrap(co.current).prev)
    /\ unwrap(co.current).delta < 1000 * DS

\* the bonus is due: the type differs, a switch was recorded since the last
\* reset, and the run that ends has another parity than the one recorded
ColorBonusDue ==
    /\ ColorPattern
    /\ unwrap(co.current).base.rim # unwrap(co.current).prev.rim
    /\ unwrap(co.before).last_color_switch # "None"
    /\ unwrap(co.before).last_color_switch #
           (IF unwrap(co.before).same_color_count % 2 = 0 THEN "Even" ELSE "Odd")

\* C27: same_color_count is always >= 1; the colour-change bonus of 0.75 is in
\* an object's strain value exactly when the object is a circle following a
\* circle within less than 1000 ms, its rim/centre type differs from the
\* previous object's, a switch has been recorded since the last reset and the
\* parity of the run just ended differs from the recorded one; a non-circle
\* object or a delta >= 1000 ms resets the state to (no switch, count 1).
C27_ColorChange ==
    /\ co.skill.same_color_count >= 1
    /\ co.current # None =>
         LET current == unwrap(co.current)
             rhythm == ColorPattern /\ Taiko_has_rhythm_change(unwrap(co.before), current)
             addition_factor == IF current.delta < 50 * DS
                                THEN 400 + (600 * current.delta) \div (50 * DS)
                                ELSE FP
         IN  /\ unwrap(co.value) =
                   MulFP(addition_factor,
                         FP + (IF ColorBonusDue THEN 750 ELSE 0) + (IF rhythm THEN FP ELSE 0))
             /\ ~ColorPattern =>
                   /\ co.skill.last_color_switch = "None"
                   /\ co.skill.same_color_count = 1

\* the bonus is granted: a run of two ends after a switch at an odd run
C27_Witness ==
    /\ co.current # None
    /\ ColorBonusDue
    /\ unwrap(co.before).same_color_count = 2
    /\ unwrap(co.before).last_color_switch = "Odd"
    /\ unwrap(co.value) >= FP + 750

\* ---------------------------------------------------------------------------
\* mania: the number of columns of the Strain skill and an object's column.
\* cs and od are in tenths, x is a whole number of pixels.

\* f32::round, half away from zero, of a value in tenths
Mania_round(tenths) == (tenths + 5) \div 10

\* f32::round_ties_even of a value in tenths
Mania_round_ties_even(tenths) ==
    IF tenths % 10 = 5 THEN 2 * ((tenths + 10) \div 20) ELSE (tenths + 5) \div 10

\* the columns of a map of mania_ppv1 and mania_2018
Mania_columns(map) ==
    LET rounded_cs == Mania_round(map.cs)
        rounded_od == Mania_round(map.od)
        n_objects == map.n_circles + map.n_sliders + map.n_spinners
        others == n_objects - map.n_circles
    IN  IF map.mode = "Mania" THEN Max(rounded_cs, 1)
        ELSE IF n_objects > 0 /\ 10 * others < 2 * n_objects THEN 7
        ELSE IF (n_objects > 0 /\ 10 * others < 3 * n_objects) \/ rounded_cs >= 5
        THEN 6 + (IF rounded_od > 5 THEN 1 ELSE 0)
        ELSE IF n_objects > 0 /\ 10 * others > 6 * n_objects
        THEN 4 + (IF rounded_od > 4 THEN 1 ELSE 0)
        ELSE Min(Max(rounded_od + 1, 4), 7)

\* mania_ppv1 DifficultyHitObject::new: floor(x / (512 / cs))
ManiaPpv1_column(x, cs) == IF cs = 0 THEN 0 ELSE (x * cs) \div 5120

\* mania_2018 DifficultyHitObject::new: floor(x / (512 / columns)).min(columns - 1)
Mania2018_column(x, columns) == Min((x * columns) \div 512, columns - 1)

\* mania_2022 ManiaObject::column
Mania2022_column(x, total_columns) == Min((x * total_columns) \div 512, total_columns - 1)

ManiaPpv1Column ==
    /\ mc.pc = "args" /\ mc.revision = "mania_ppv1"
    /\ mc' = [mc EXCEPT !.pc = "done",
                        !.columns = Mania_columns(mc.map),
                        !.column = ManiaPpv1_column(mc.x, mc.map.cs)]
    /\ UNCHANGED <<tk, dl, rd, ev, os, ck, pp, cb, ob, hr, fr, cp, bf, vc, co, mu>>

Mania2018Column ==
    /\ mc.pc = "args" /\ mc.revision = "mania_2018"
    /\ mc' = [mc EXCEPT !.pc = "done",
                        !.columns = Mania_columns(mc.map),
                        !.column = Mania2018_column(mc.x, Mania_columns(mc.map))]
    /\ UNCHANGED <<tk, dl, rd, ev, os, ck, pp, cb, ob, hr, fr, cp, bf, vc, co, mu>>

Mania2022Column ==
    /\ mc.pc = "args" /\ mc.revision = "mania_2022" /\ mc.map.mode = "Mania"
    /\ LET total_columns == Max(Mania_round_ties_even(mc.map.cs), 1)
       IN  mc' = [mc EXCEPT !.pc = "done",
                            !.columns = total_columns,
                            !.column = Mania2022_column(mc.x, total_columns)]
    /\ UNCHANGED <<tk, dl, rd, ev, os, ck, pp, cb, ob, hr, fr, cp, bf, vc, co, mu>>

InitColumns ==
    /\ mc \in { [pc |-> "args", revision |-> r, x |-> x, columns |-> 0, column |-> 0,
                 map |-> [mode |-> m, cs |-> cs, od |-> od, n_circles |-> n[1],
                          n_sliders |-> n[2], n_spinners |-> 0]] :
                  r \in {"mania_ppv1", "mania_2018", "mania_2022"},
                  x \in {0, 100, 256, 400, 511, 512},
                  m \in {"Mania", "Osu"},
                  cs \in {0, 10, 35, 40, 44, 45, 70, 100},
                  od \in {30, 60, 90},
                  n \in {<<10, 0>>, <<3, 1>>, <<1, 1>>, <<1, 3>>} }
    /\ tk = Idle /\ dl = Idle /\ rd = Idle /\ ev = Idle /\ os = Idle /\ ck = Idle /\ pp = Idle /\ cb = Idle /\ ob = Idle /\ hr = Idle /\ fr = Idle /\ cp = Idle /\ bf = Idle /\ vc = Idle /\ co = Idle /\ mu = Idle

NextColumns == ManiaPpv1Column \/ Mania2018Column \/ Mania2022Column

SpecColumns == InitColumns /\ [][NextColumns]_vars

\* C28: the column computed for an object with x in [0, 512] is smaller than
\* the number of columns of the skill.
C28_ColumnInRange == mc.pc = "done" => mc.column < mc.columns

\* ---------------------------------------------------------------------------
\* mania_ppv1 and mania_2018: the score brackets of ManiaPP::compute_strain
\* ---------------------------------------------------------------------------

\* the factors by which compute_strain multiplies strain_value are multiples of
\* 1 / 2,000,000 for a whole score: a factor f is held as f * ScoreUnit
ScoreUnit == 2 * FP * FP

\* mania_ppv1: the factor of strain_value for a score (0 stands for
\* `strain_value = 0.0`)
ManiaPpv1_compute_strain(score) ==
    IF score <= 500000 THEN 0
    ELSE IF score <= 600000 THEN ((score - 500000) * 3 * (ScoreUnit \div 100000)) \div 10
    ELSE IF score <= 700000 THEN (30 * ScoreUnit) \div 100 + ((score - 600000) * 25 * (ScoreUnit \div 100000)) \div 100
    ELSE IF score <= 800000 THEN (65 * ScoreUnit) \div 100 + ((score - 700000) * 2 * (ScoreUnit \div 100000)) \div 10
    ELSE IF score <= 900000 THEN (85 * ScoreUnit) \div 100 + ((score - 800000) * 15 * (ScoreUnit \div 100000)) \div 100
    ELSE (95 * ScoreUnit) \div 100 + ((score - 900000) * (ScoreUnit \div 100000)) \div 10

\* mania_2018: the factor of strain_value for a score
Mania2018_compute_strain(score) ==
    IF score <= 500000 THEN 0
    ELSE IF score <= 600000 THEN ((score - 500000) * 3 * (ScoreUnit \div 100000)) \div 10
    ELSE IF score <= 700000 THEN (30 * ScoreUnit) \div 100 + ((score - 600000) * 25 * (ScoreUnit \div 100000)) \div 100
    ELSE IF score <= 800000 THEN (55 * ScoreUnit) \div 100 + ((score - 700000) * 2 * (ScoreUnit \div 100000)) \div 10
    ELSE IF score <= 900000 THEN (75 * ScoreUnit) \div 100 + ((score - 800000) * 15 * (ScoreUnit \div 100000)) \div 100
    ELSE (90 * ScoreUnit) \div 100 + ((score - 900000) * (ScoreUnit \div 100000)) \div 10

\* the borders of the brackets
ScoreBorders == {500000, 600000, 700000, 800000, 900000}

\* the scores of the calls: the ends of the range, every border, the score
\* right above it and the middle of every bracket
Scores == {0, 250000, 1000000} \cup ScoreBorders \cup { b + 1 : b \in ScoreBorders } \cup { b + 50000 : b \in ScoreBorders }

\* mania_ppv1: compute_strain on the two scores of the state
ManiaPpv1ComputeStrain ==
    /\ mu.pc = "args" /\ mu.revision = "mania_ppv1"
    /\ mu' = [mu EXCEPT !.pc = "done",
                        !.lower_factor = ManiaPpv1_compute_strain(mu.lower),
                        !.higher_factor = ManiaPpv1_compute_strain(mu.higher)]
    /\ UNCHANGED <<tk, dl, rd, ev, os, ck, pp, cb, ob, hr, fr, cp, bf, vc, co, mc>>

\* mania_2018: compute_strain on the two scores of the state
Mania2018ComputeStrain ==
    /\ mu.pc = "args" /\ mu.revision = "mania_2018"
    /\ mu' = [mu EXCEPT !.pc = "done",
                        !.lower_factor = Mania2018_compute_strain(mu.lower),
                        !.higher_factor = Mania2018_compute_strain(mu.higher)]
    /\ UNCHANGED <<tk, dl, rd, ev, os, ck, pp, cb, ob, hr, fr, cp, bf, vc, co, mc>>

InitScores ==
    /\ mu \in { [pc |-> "args", revision |-> r, lower |-> a, higher |-> b,
                 lower_factor |-> 0, higher_factor |-> 0] :
                  r \in {"mania_ppv1", "mania_2018"},
                  a \in Scores, b \in Scores }
    /\ mu.lower <= mu.higher
    /\ tk = Idle /\ dl = Idle /\ rd = Idle /\ ev = Idle /\ os = Idle /\ ck = Idle /\ pp = Idle /\ cb = Idle /\ ob = Idle /\ hr = Idle /\ fr = Idle /\ cp = Idle /\ bf = Idle /\ vc = Idle /\ co = Idle /\ mc = Idle

NextScores == ManiaPpv1ComputeStrain \/ Mania2018ComputeStrain

SpecScores == InitScores /\ [][NextScores]_vars

\* the higher score has no smaller a factor
ScoreNonDecreasing == mu.lower_factor <= mu.higher_factor

\* from a border to the score right above it the factor changes by no more
\* than the steepest bracket (0.3 per 100,000) does in one point
ScoreNoJump ==
    (mu.lower \in ScoreBorders /\ mu.higher = mu.lower + 1)
        => mu.higher_factor - mu.lower_factor <= (3 * ScoreUnit) \div (100000 * 10)

\* C29: in mania_ppv1 and in mania_2018 the factor compute_strain applies for
\* the score is non-decreasing in the score over 0..=1,000,000 and does not
\* jump at the borders 500,000, 600,000, 700,000, 800,000 and 900,000.
C29_ScoreFactorMonotoneNoJump == mu.pc = "done" => (ScoreNonDecreasing /\ ScoreNoJump)

\* the same of mania_2018 alone
Mania2018ScoreFactor == (mu.pc = "done" /\ mu.revision = "mania_2018") => (ScoreNonDecreasing /\ ScoreNoJump)

\* mania_ppv1 between the borders that its brackets share with mania_2018's
ManiaPpv1LowScoreFactor == (mu.pc = "done" /\ mu.revision = "mania_ppv1" /\ mu.higher <= 700000) => (ScoreNonDecreasing /\ ScoreNoJump)

=============================================================================
